---- MODULE Spec2Model ----
(***************************************************************************)
(* Projective spin measurements of the quantum-entanglement simulation:    *)
(* the TwoSpin / SingleSpin classes of mod_spin_operators.py and the three  *)
(* scripts that drive them (epr_experiment.py, two_spin_sim.py,             *)
(* single_spin_sim.py).                                                     *)
(*                                                                          *)
(* Amplitudes are exact numbers of the field Q(sqrt 2, sqrt 3, i), times    *)
(* 1/sqrt 5 for the partially entangled state: every amplitude the scripts  *)
(* build from their documented states and from apparatus angles that are    *)
(* multiples of 30 degrees is such a number, so norms, traces and           *)
(* probabilities are computed exactly, as real arithmetic gives them.       *)
(***************************************************************************)
EXTENDS Integers, Sequences, FiniteSets, TLC

(***************************************************************************)
(* Exact arithmetic.  A real number is (a1 + a2*sqrt2 + a3*sqrt3 +          *)
(* a4*sqrt6)/den, a complex number a pair of them over one denominator:     *)
(* [re |-> <<a1,a2,a3,a4>>, im |-> <<b1,b2,b3,b4>>, den |-> d], d > 0, in    *)
(* lowest terms, so that equal numbers are equal values.  The field root5   *)
(* is 1 when the number is that quotient divided by sqrt 5 (the amplitudes  *)
(* sqrt 0.6 = sqrt3/sqrt5 and sqrt 0.4 = sqrt2/sqrt5) and 0 otherwise.      *)
(***************************************************************************)
Abs(n) == IF n < 0 THEN -n ELSE n

RECURSIVE Gcd(_, _)
Gcd(a, b) == IF b = 0 THEN a ELSE Gcd(b, a % b)

\* the greatest common divisor of the entries of a sequence of integers
RECURSIVE GcdSeq(_)
GcdSeq(s) == IF s = <<>> THEN 0 ELSE Gcd(Abs(Head(s)), GcdSeq(Tail(s)))

R0 == <<0, 0, 0, 0>>

RAdd(a, c) == <<a[1] + c[1], a[2] + c[2], a[3] + c[3], a[4] + c[4]>>
RSub(a, c) == <<a[1] - c[1], a[2] - c[2], a[3] - c[3], a[4] - c[4]>>
RScale(k, a) == <<k * a[1], k * a[2], k * a[3], k * a[4]>>
RMul(a, c) ==
  << a[1]*c[1] + 2*a[2]*c[2] + 3*a[3]*c[3] + 6*a[4]*c[4],
     a[1]*c[2] + a[2]*c[1] + 3*a[3]*c[4] + 3*a[4]*c[3],
     a[1]*c[3] + a[3]*c[1] + 2*a[2]*c[4] + 2*a[4]*c[2],
     a[1]*c[4] + a[4]*c[1] + a[2]*c[3] + a[3]*c[2] >>
RDiv(a, g) == <<a[1] \div g, a[2] \div g, a[3] \div g, a[4] \div g>>

\* sign of a + b*sqrt2 for integers a, b
Sign2(a, b) ==
  IF a >= 0 /\ b >= 0 THEN (IF a = 0 /\ b = 0 THEN 0 ELSE 1)
  ELSE IF a <= 0 /\ b <= 0 THEN -1
  ELSE IF a > 0 THEN (IF a*a > 2*b*b THEN 1 ELSE -1)
  ELSE (IF 2*b*b > a*a THEN 1 ELSE -1)

\* sign of u + v*sqrt3 from the signs of u, of v and of u*u - 3*v*v
SignOfSum(su, sv, sw) ==
  IF sv = 0 THEN su
  ELSE IF su = 0 THEN sv
  ELSE IF su = sv THEN su
  ELSE su * sw

\* sign of a1 + a2*sqrt2 + a3*sqrt3 + a4*sqrt6 = u + v*sqrt3, u and v in Z[sqrt2]
RSign(a) ==
  SignOfSum(Sign2(a[1], a[2]), Sign2(a[3], a[4]),
            Sign2(a[1]*a[1] + 2*a[2]*a[2] - 3*a[3]*a[3] - 6*a[4]*a[4],
                  2*a[1]*a[2] - 6*a[3]*a[4]))

Reduced(re, im, den, g, root5) ==
  [re |-> RDiv(re, g), im |-> RDiv(im, g), den |-> den \div g,
   root5 |-> IF re = R0 /\ im = R0 THEN 0 ELSE root5]

\* (re + i im) / (den * sqrt5^root5) in lowest terms with a positive
\* denominator, den # 0
Num(re, im, den, root5) ==
  Reduced(re, im, den,
          (IF den < 0 THEN -1 ELSE 1) * GcdSeq(re \o im \o <<den>>), root5)

Rat(n, d) == Num(<<n, 0, 0, 0>>, R0, d, 0)
Zero == [re |-> <<0, 0, 0, 0>>, im |-> <<0, 0, 0, 0>>, den |-> 1, root5 |-> 0]
One == [re |-> <<1, 0, 0, 0>>, im |-> <<0, 0, 0, 0>>, den |-> 1, root5 |-> 0]
Half == [re |-> <<1, 0, 0, 0>>, im |-> <<0, 0, 0, 0>>, den |-> 2, root5 |-> 0]
ImagUnit == [re |-> <<0, 0, 0, 0>>, im |-> <<1, 0, 0, 0>>, den |-> 1, root5 |-> 0]
InvSqrt2 == [re |-> <<0, 1, 0, 0>>, im |-> <<0, 0, 0, 0>>, den |-> 2, root5 |-> 0]
Sqrt3Half == [re |-> <<0, 0, 1, 0>>, im |-> <<0, 0, 0, 0>>, den |-> 2, root5 |-> 0]

\* the sqrt5 grade of a sum: both terms have it, unless one of them is 0
Root5Of(p, q) ==
  CASE p.root5 = q.root5 -> p.root5
    [] p.re = R0 /\ p.im = R0 -> q.root5
    [] q.re = R0 /\ q.im = R0 -> p.root5
CAdd(p, q) == Num(RAdd(RScale(q.den, p.re), RScale(p.den, q.re)),
                  RAdd(RScale(q.den, p.im), RScale(p.den, q.im)), p.den * q.den,
                  Root5Of(p, q))
\* s * p for s = 1 or s = -1
Signed(s, p) ==
  [re |-> RScale(s, p.re), im |-> RScale(s, p.im), den |-> p.den,
   root5 |-> p.root5]
CNeg(p) == Signed(-1, p)
CSub(p, q) == CAdd(p, CNeg(q))
\* (x/sqrt5) * (y/sqrt5) = x*y/5
CMul(p, q) == Num(RSub(RMul(p.re, q.re), RMul(p.im, q.im)),
                  RAdd(RMul(p.re, q.im), RMul(p.im, q.re)),
                  p.den * q.den * (IF p.root5 + q.root5 = 2 THEN 5 ELSE 1),
                  (p.root5 + q.root5) % 2)
CConj(p) ==
  [re |-> p.re, im |-> RScale(-1, p.im), den |-> p.den, root5 |-> p.root5]
\* c + i s for two real numbers c and s
Complex(c, s) ==
  Num(RScale(s.den, c.re), RScale(c.den, s.re), c.den * s.den, Root5Of(c, s))
IsZero(p) == p.re = R0 /\ p.im = R0
\* the sign of a real number, and the order of two real numbers
Sign(p) == RSign(p.re)
Less(p, q) == Sign(CSub(p, q)) = -1
\* 1/p for a real p # 0: with c3 the conjugate of p.re in sqrt3 and c2 the
\* conjugate of w = p.re * c3 in sqrt2, p.re * c3 * c2 is the integer w * c2
Conj3(a) == <<a[1], a[2], -a[3], -a[4]>>
Conj2(w) == <<w[1], -w[2], 0, 0>>
RealInvBy(den, c3, w, root5) ==
  Num(RScale(den * (IF root5 = 1 THEN 5 ELSE 1), RMul(c3, Conj2(w))), R0,
      RMul(w, Conj2(w))[1], root5)
RealInv(p) ==
  RealInvBy(p.den, Conj3(p.re), RMul(p.re, Conj3(p.re)), p.root5)
\* |z|^2, and |z| of a number on the real axis (numpy's norm of a scalar)
Abs2(p) == CMul(p, CConj(p))
AbsReal(p) == Signed(IF Sign(p) = -1 THEN -1 ELSE 1, p)

(***************************************************************************)
(* Vectors are sequences of numbers and matrices sequences of rows, as the  *)
(* numpy arrays are.                                                        *)
(***************************************************************************)
RECURSIVE SumSeq(_)
SumSeq(s) == IF s = <<>> THEN Zero ELSE CAdd(Head(s), SumSeq(Tail(s)))

\* a sequence with its entries evaluated once (an array in memory)
Array(f) == f \o <<>>
\* a function with its values evaluated once (a table in memory)
Table(f) == f @@ <<>>

\* numpy.linalg.norm(v) ** 2
Norm2(v) == SumSeq([k \in 1..Len(v) |-> Abs2(v[k])])
VScale(c, v) == Array([k \in 1..Len(v) |-> CMul(c, v[k])])
VAdd(v, w) == Array([k \in 1..Len(v) |-> CAdd(v[k], w[k])])
VSub(v, w) == Array([k \in 1..Len(v) |-> CSub(v[k], w[k])])
\* numpy.vdot(a, b): the first argument is conjugated
VDot(a, b) == SumSeq([k \in 1..Len(a) |-> CMul(CConj(a[k]), b[k])])
\* numpy.outer(v, w.conj())
Outer(v, w) ==
  Array([j \in 1..Len(v) |-> Array([k \in 1..Len(w) |-> CMul(v[j], CConj(w[k]))])])
\* numpy.kron of two column vectors and of two square matrices
KronVec(a, b) ==
  Array([k \in 1..(Len(a) * Len(b)) |->
     CMul(a[((k - 1) \div Len(b)) + 1], b[((k - 1) % Len(b)) + 1])])
KronMat(A, B) ==
  Array([j \in 1..(Len(A) * Len(B)) |-> Array([k \in 1..(Len(A) * Len(B)) |->
     CMul(A[((j - 1) \div Len(B)) + 1][((k - 1) \div Len(B)) + 1],
          B[((j - 1) % Len(B)) + 1][((k - 1) % Len(B)) + 1])])])
Eye2 == <<<<One, Zero>>, <<Zero, One>>>>
\* numpy.dot of a matrix with a vector, and of two matrices
MatVec(M, v) ==
  Array([j \in 1..Len(M) |-> SumSeq([k \in 1..Len(v) |-> CMul(M[j][k], v[k])])])
MatMul(A, B) ==
  Array([j \in 1..Len(A) |-> Array([k \in 1..Len(B[1]) |->
     SumSeq([m \in 1..Len(B) |-> CMul(A[j][m], B[m][k])])])])
Trace(M) == SumSeq([k \in 1..Len(M) |-> M[k][k]])

(***************************************************************************)
(* Angles.  An angle is a whole number of degrees; the cosine and sine of   *)
(* a multiple of 15 degrees are numbers of the field.  np.deg2rad and the   *)
(* factor pi / 180 only change the unit, and "+ np.pi" is "+ 180".          *)
(***************************************************************************)
\* cos(0), cos(15), ..., cos(90)
Cos15 ==
  << [re |-> <<1, 0, 0, 0>>, im |-> <<0, 0, 0, 0>>, den |-> 1, root5 |-> 0],
     [re |-> <<0, 1, 0, 1>>, im |-> <<0, 0, 0, 0>>, den |-> 4, root5 |-> 0],
     [re |-> <<0, 0, 1, 0>>, im |-> <<0, 0, 0, 0>>, den |-> 2, root5 |-> 0],
     [re |-> <<0, 1, 0, 0>>, im |-> <<0, 0, 0, 0>>, den |-> 2, root5 |-> 0],
     [re |-> <<1, 0, 0, 0>>, im |-> <<0, 0, 0, 0>>, den |-> 2, root5 |-> 0],
     [re |-> <<0, -1, 0, 1>>, im |-> <<0, 0, 0, 0>>, den |-> 4, root5 |-> 0],
     [re |-> <<0, 0, 0, 0>>, im |-> <<0, 0, 0, 0>>, den |-> 1, root5 |-> 0] >>

\* the cosine of k * 15 degrees, 0 <= k < 24, from the first quadrant
CosQuadrant(k) ==
  IF k <= 6 THEN <<1, k + 1>>
  ELSE IF k <= 12 THEN <<-1, 13 - k>>
  ELSE IF k <= 18 THEN <<-1, k - 11>>
  ELSE <<1, 25 - k>>
CosAt(q) == Signed(q[1], Cos15[q[2]])
CosDeg(a) == CosAt(CosQuadrant((a % 360) \div 15))
SinDeg(a) == CosDeg(a - 90)
\* np.exp(1j * phi)
ExpI(phi) == Complex(CosDeg(phi), SinDeg(phi))

(***************************************************************************)
(* SingleSpin, basis 'ud': the six named states.                            *)
(***************************************************************************)
s_u == <<One, Zero>>
s_d == <<Zero, One>>
s_r == <<InvSqrt2, InvSqrt2>>
s_l == <<InvSqrt2, CNeg(InvSqrt2)>>
s_i == <<InvSqrt2, CMul(ImagUnit, InvSqrt2)>>
s_o == <<InvSqrt2, CNeg(CMul(ImagUnit, InvSqrt2))>>

\* a field that holds None
None == <<>>

\* math.isclose(np.linalg.norm(value), 1): the norm of every vector of the
\* model is either 1 exactly or far outside the relative tolerance 1e-09
IsUnit(value) == Norm2(value) = One

(***************************************************************************)
(* TwoSpin: the basis uu, ud, du, dd and the prepared states.               *)
(***************************************************************************)
BasisVector(s) ==
  KronVec(IF s \in {"uu", "ud"} THEN s_u ELSE s_d,
          IF s \in {"uu", "du"} THEN s_u ELSE s_d)

SingletState == VScale(InvSqrt2, VSub(BasisVector("ud"), BasisVector("du")))

\* 1: (ud + du)/sqrt2, 2: (uu + dd)/sqrt2, 3: (uu - dd)/sqrt2
TripletState(i) ==
  VScale(InvSqrt2,
         VAdd(BasisVector(IF i = 1 THEN "ud" ELSE "uu"),
              VScale(IF i = 3 THEN CNeg(One) ELSE One,
                     BasisVector(IF i = 1 THEN "du" ELSE "dd"))))

(***************************************************************************)
(* TwoSpin.Measure (and its copy OpenGLWidget.measureSpin), step by step.   *)
(***************************************************************************)
\* reshape((2, 2, 2, 2)).trace(axis1=1, axis2=3) and .trace(axis1=0, axis2=2)
\* of a 4x4 matrix
TraceAxes13(M) ==
  Array([a \in 1..2 |-> Array([c \in 1..2 |->
     CAdd(M[2 * (a - 1) + 1][2 * (c - 1) + 1],
          M[2 * (a - 1) + 2][2 * (c - 1) + 2])])])
TraceAxes02(M) ==
  Array([b \in 1..2 |-> Array([d \in 1..2 |-> CAdd(M[b][d], M[2 + b][2 + d])])])

\* reduced density matrix of the first / of the second spin
Rho1(psi) == TraceAxes13(Outer(psi, psi))
Rho2(psi) == TraceAxes02(Outer(psi, psi))

Projector(direction) == Outer(direction, direction)

\* the 4x4 projector built on the first factor whichever spin is measured
JointProjectorOnFirst(projector, simulate_1) == KronMat(projector, Eye2)

\* projector_p1_s / projector_m1_s: the 4x4 projector of the spin measured first
JointProjector(projector, simulate_1) ==
  KronMat(IF simulate_1 THEN projector ELSE Eye2,
          IF simulate_1 THEN Eye2 ELSE projector)

\* a probability that is not a number (0/0), and the comparison r < p,
\* which is False when p is not a number
NaN == [re |-> <<0, 0, 0, 0>>, im |-> <<0, 0, 0, 0>>, den |-> 0, root5 |-> 0]
IsNaN(p) == p.den = 0
RandomLess(r, p) == ~IsNaN(p) /\ Less(r, p)

\* np.linalg.norm of the trace of projector . rho (a real number, both
\* matrices being Hermitian)
TraceProb(projector, rho) == AbsReal(Trace(MatMul(projector, rho)))

\* prob_p11: the probability of the first spin being "+1"
prob_p11(psi, directions1, directions2, simulate_1) ==
  TraceProb(Projector(IF simulate_1 THEN directions1[1] ELSE directions2[1]),
            IF simulate_1 THEN Rho1(psi) ELSE Rho2(psi))

\* an outcome coded 1 / 0
OutcomeBit(random_number, prob) == IF RandomLess(random_number, prob) THEN 1 ELSE 0

\* "+1" also when the draw equals the probability
OutcomeAtMost(random_number, prob) ==
  IF ~IsNaN(prob) /\ ~Less(prob, random_number) THEN 1 ELSE -1

\* sp1 / sp2: an outcome from a draw and a probability
Outcome(random_number, prob) == IF RandomLess(random_number, prob) THEN 1 ELSE -1

\* psi left as it is by the first outcome
ProjectedNowhere(psi, directions1, directions2, simulate_1, sp1) == psi

\* psi projected on the direction of the first outcome, before it is normalized
Projected(psi, directions1, directions2, simulate_1, sp1) ==
  MatVec(JointProjector(
           Projector((IF simulate_1 THEN directions1 ELSE directions2)
                        [IF sp1 = 1 THEN 1 ELSE 2]),
           simulate_1), psi)

\* trace / norm2, which is 0/0 when the norm is zero
Normalized(trace, norm2) ==
  IF IsZero(norm2) THEN NaN ELSE CMul(trace, RealInv(norm2))

\* prob_p12 from the projected vector: the reduced density matrix of
\* psi_r = projected / norm(projected) is that of the projected vector
\* divided by the square of its norm
ProbOfProjected(projected, projector_p21, simulate_1) ==
  Normalized(TraceProb(projector_p21,
                       IF simulate_1 THEN Rho2(projected) ELSE Rho1(projected)),
             Norm2(projected))

\* prob_p12: the probability of the other spin being "+1"
prob_p12(psi, directions1, directions2, simulate_1, sp1) ==
  ProbOfProjected(Projected(psi, directions1, directions2, simulate_1, sp1),
                  Projector(IF simulate_1 THEN directions2[1] ELSE directions1[1]),
                  simulate_1)

\* the return statement of TwoSpin.Measure
MeasureReturn(sp1, sp2, simulate_1) == <<sp1, sp2>>

\* measureSpin returning the pair in the order of measurement
measureSpinReturnInOrder(sp1, sp2, simulate_A) == <<sp1, sp2>>

\* the return statement of OpenGLWidget.measureSpin (two_spin_sim.py)
measureSpinReturn(sp1, sp2, simulate_A) ==
  IF simulate_A THEN <<sp1, sp2>> ELSE <<sp2, sp1>>

\* the projection stored as the state whatever the flag
StateAfterMeasureCollapsed(state, psi, psi_r, update) == psi_r

\* "if update: self.__state = psi", psi being the state read on entry and
\* psi_r the normalized projection, which is never stored
StateAfterMeasure(state, psi, psi_r, update) == IF update THEN psi ELSE state

(***************************************************************************)
(* The draws of random.uniform(0, 1), which lie in [0, 1).                  *)
(***************************************************************************)
DrawDen == 4
RandomDraws == {Rat(k, DrawDen) : k \in 0..(DrawDen - 1)}

\* the outcomes (sp1, sp2) the two draws can give from the probabilities, with
\* a flag telling that the projected vector had norm zero
Samples(p11, p12) ==
  UNION {{[sp1 |-> sp1,
           sp2 |-> Outcome(r, p12[IF sp1 = 1 THEN 1 ELSE 2]),
           zero_norm |-> IsNaN(p12[IF sp1 = 1 THEN 1 ELSE 2])] :
          r \in RandomDraws} : sp1 \in {Outcome(q, p11) : q \in RandomDraws}}

Observed(p11, p12) ==
  [prob_p11 |-> p11, prob_p12 |-> p12, samples |-> Samples(p11, p12)]

\* What one joint measurement can give: the probabilities it computes (p12
\* for sp1 = 1 and for sp1 = -1) and the outcomes
Measurement(psi, directions1, directions2, simulate_1) ==
  Observed(prob_p11(psi, directions1, directions2, simulate_1),
           Array([k \in 1..2 |->
              prob_p12(psi, directions1, directions2, simulate_1,
                       IF k = 1 THEN 1 ELSE -1)]))

(***************************************************************************)
(* Apparatus directions.  All three scripts build the "+1" vector of an     *)
(* apparatus as [cos(theta/2), exp(i phi) sin(theta/2)] and the "-1" vector  *)
(* with the half angle moved by a quarter turn.                             *)
(***************************************************************************)
\* [cos(half), exp(i phi) sin(half)], half = theta / 2 in degrees
HalfAngleVector(half, phi) == <<CosDeg(half), CMul(ExpI(phi), SinDeg(half))>>

\* the longest log of trials a run reaches; epr_experiment.py is run with the
\* number of measurements (-m) set to it, or to MaxLog + 1 for a session of
\* more than one trial
MaxLog == 1

\* epr_experiment.py: the cfg namespace as the module creates it
EprDefault ==
  [stype |-> 1, n |-> 100, invert |-> TRUE, theta1 |-> 0, phi1 |-> 0, theta2 |-> 0,
   phi2 |-> 0, bloch_t |-> 1, bloch_p |-> 1, appthetaL |-> 240,
   appthetaC |-> 0, appthetaR |-> 120, experiment |-> -1]

\* "if (args.x): cfg.y = args.x" for a numeric option: an option that is
\* absent or 0 leaves the default
Option(args, x, default) ==
  IF x \in DOMAIN args /\ args[x] # 0 THEN args[x] ELSE default

\* lines 899-922: the options copied into cfg.  args holds the options given
\* on the command line under their short names; -t is a string, true
\* whenever it is given, and -n a flag
Parsed(args) ==
  [EprDefault EXCEPT
     !.stype = IF "t" \in DOMAIN args THEN args.t ELSE @,
     !.n = Option(args, "m", @),
     !.invert = IF "n" \in DOMAIN args THEN FALSE ELSE @,
     !.theta1 = Option(args, "r", @), !.theta2 = Option(args, "s", @),
     !.phi1 = Option(args, "p", @), !.phi2 = Option(args, "q", @),
     !.bloch_t = Option(args, "b", @), !.bloch_p = Option(args, "c", @)]

\* lines 924-969: what "-e" assigns over the parsed options.  Experiment 1
\* assigns neither bloch_t nor bloch_p; 22.5 degrees is the number 45/2
Experiment(c, e) ==
  IF e = 1
  THEN [c EXCEPT !.experiment = 1, !.stype = 1, !.appthetaL = 240,
                 !.appthetaC = 0, !.appthetaR = 120, !.theta1 = 0,
                 !.theta2 = 0, !.phi1 = 0, !.phi2 = 0, !.invert = TRUE]
  ELSE [c EXCEPT !.experiment = 2, !.stype = 3, !.appthetaL = 0,
                 !.appthetaC = Rat(45, 2), !.appthetaR = 45, !.theta1 = 0,
                 !.theta2 = 0, !.bloch_t = 2, !.bloch_p = 1, !.phi1 = 0,
                 !.phi2 = 0, !.invert = FALSE]

\* main(): cfg after argument processing
main(args) ==
  IF "e" \in DOMAIN args THEN Experiment(Parsed(args), args.e) ELSE Parsed(args)

\* the switch directions computed from the apparatus angles alone
SwitchDirectionsUnturned(theta, phi, c, plus) ==
  Array([k \in 1..3 |-> HalfAngleVector(
     (<<c.appthetaL, c.appthetaC, c.appthetaR>>[k] * c.bloch_t + plus) \div 2,
     phi * c.bloch_p)])

\* the three switch directions of an apparatus: "+1" (plus = 0) and "-1"
\* (plus = 180, theta + pi)
SwitchDirections(theta, phi, c, plus) ==
  Array([k \in 1..3 |-> HalfAngleVector(
     ((theta + <<c.appthetaL, c.appthetaC, c.appthetaR>>[k]) * c.bloch_t + plus)
        \div 2,
     phi * c.bloch_p)])

\* the state OpenGLWidget.__init__ prepares for cfg.stype (None: no case matches)
EprPrepared(stype) ==
  IF stype = 1 THEN SingletState
  ELSE IF stype \in 2..4 THEN TripletState(stype - 1)
  ELSE None

\* the error the constructor ends with when no case matches: the message
\* reads self.simul_type, an attribute the widget does not have
EprConstructError(stype) ==
  IF stype \in 1..4 THEN "ok" ELSE "AttributeError"

\* lines 652-665: the pair returned by Measure, assigned to
\* (measurement1, measurement2) or to (measurement2, measurement1)
EprAssign(ret, simulate_1) ==
  IF simulate_1 THEN [measurement1 |-> ret[1], measurement2 |-> ret[2]]
                ELSE [measurement1 |-> ret[2], measurement2 |-> ret[1]]

\* a log whose last entry is overwritten
np_overwrite(arr, values) ==
  IF arr = <<>> THEN <<values>> ELSE [arr EXCEPT ![Len(arr)] = values]

\* np.append(arr, values): a new array, arr followed by the value
np_append(arr, values) == Append(arr, values)

\* the inversion of apparatus 2 left out
InvertSkipped(value, invert) == value

\* "if cfg.invert: self.measurement2 *= -1"
Invert(value, invert) == IF invert THEN value * (-1) ELSE value

(***************************************************************************)
(* Bounds and input sets.                                                   *)
(***************************************************************************)
Switches == 0..2
PlusMinus == {1, -1}

\* the command lines of epr_experiment.py that are run: "-m 1", "-m 1 -n -s
\* 180", "-m 1 -t 3 -n" and "-m 1 -t 5"
EprArgs ==
  { [m |-> MaxLog],
    [m |-> MaxLog, n |-> TRUE, s |-> 180],
    [m |-> MaxLog, t |-> 3, n |-> TRUE],
    [m |-> MaxLog, t |-> 5] }
EprConfigs == {main(args) : args \in EprArgs}

\* the command lines of the longer sessions: "-m 2" and "-m 1 -e 1 -b 2"
SessionArgs ==
  { [m |-> MaxLog + 1],
    [m |-> MaxLog, e |-> 1, b |-> 2] }
SessionConfigs == {main(args) : args \in SessionArgs}

\* the command lines of the sessions in which the mode is switched: "-m 2
\* -e 1", which starts in Random mode, and "-m 2 -n -s 180", which starts in
\* Fix mode
PolicyArgs ==
  { [m |-> 2, e |-> 1],
    [m |-> 2, n |-> TRUE, s |-> 180] }
PolicyConfigs == {main(args) : args \in PolicyArgs}

\* the directions OpenGLWidget.__init__ computes from cfg: direction1p,
\* direction1m, direction2p, direction2m, each indexed by the switch
EprDirections ==
  Table([c \in EprConfigs \cup SessionConfigs \cup PolicyConfigs |->
     Table([n \in {"direction1p", "direction1m", "direction2p", "direction2m"} |->
        SwitchDirections(
           IF n \in {"direction1p", "direction1m"} THEN c.theta1 ELSE c.theta2,
           IF n \in {"direction1p", "direction1m"} THEN c.phi1 ELSE c.phi2,
           c,
           IF n \in {"direction1p", "direction2p"} THEN 0 ELSE 180)])])

\* what a client of mod_spin_operators passes to ProductState, to the psi
\* setters and to Measure: the directions along z, along x, and a pair that
\* is not orthogonal, both vectors being |d>
DirectionInputs == {<<s_u, s_d>>, <<s_r, s_l>>, <<s_d, s_d>>}
e3 == <<One, Zero, Zero>>
\* 2 |u> and |u> / 2
LongAndShort == [k \in 1..2 |-> VScale(IF k = 1 THEN Rat(2, 1) ELSE Half, s_u)]
FactorInputs == {s_u, LongAndShort[1], LongAndShort[2], e3}
PsiInputs ==
  {KronVec(s_r, s_u), KronVec(s_u, s_d), KronVec(LongAndShort[1], s_u), e3}
\* a one-element array of norm 1
e1 == <<One>>
SinglePsiInputs == {s_i, LongAndShort[1], e3, e1}
TripletInputs == 0..4

(***************************************************************************)
(* The operations of TwoSpin and SingleSpin as functions of the state held  *)
(* by the object: each gives the status of the call ("ok" or the class of   *)
(* the exception raised) and the state held afterwards.  The scripts run    *)
(* under plain python3, so the assert statements are executed.              *)
(***************************************************************************)
\* the setter without its assert
TwoSpin_psiUnchecked(state, value) == [status |-> "ok", state |-> value]

\* TwoSpin.psi setter: assert isclose(norm(value), 1); self.__state = value
TwoSpin_psi(state, value) ==
  IF IsUnit(value) THEN [status |-> "ok", state |-> value]
                   ELSE [status |-> "AssertionError", state |-> state]

\* SingleSpin.psi setter, the same two statements
SingleSpin_psi(state, value) ==
  IF IsUnit(value) THEN [status |-> "ok", state |-> value]
                   ELSE [status |-> "AssertionError", state |-> state]

\* bool(self.__state) as "assert self.__state" takes it: None is false, a
\* numpy array of one element has the truth value of the element, and one
\* of more elements has none (ValueError)
Truth(state) ==
  IF state = None THEN "False"
  ELSE IF Len(state) > 1 THEN "ValueError"
  ELSE IF IsZero(state[1]) THEN "False" ELSE "True"

\* |z| = np.linalg.norm(z) of a scalar, np.arccos and cmath.phase in
\* degrees, where they are multiples of 15 degrees
AbsOf(z) == CHOOSE c \in {Cos15[k] : k \in 1..7} : CMul(c, c) = Abs2(z)
ArcCosDeg(c) == CHOOSE a \in {15 * k : k \in 0..6} : CosDeg(a) = c
PhaseDeg(z) ==
  CHOOSE a \in {15 * k - 180 : k \in 1..24} : z = CMul(AbsOf(z), ExpI(a))

\* SingleSpin.theta: assert self.__state, then
\* 2 * np.arccos(np.linalg.norm(self.__state[0][0]))
SingleSpin_theta(state) ==
  CASE Truth(state) = "False" -> [status |-> "AssertionError", ret |-> <<>>]
    [] Truth(state) = "ValueError" -> [status |-> "ValueError", ret |-> <<>>]
    [] OTHER -> [status |-> "ok", ret |-> 2 * ArcCosDeg(AbsOf(state[1]))]

\* SingleSpin.phi: assert self.__state, then the phase of self.__state[1][0]
\* if it is not 0, else 0
SingleSpin_phi(state) ==
  CASE Truth(state) = "False" -> [status |-> "AssertionError", ret |-> <<>>]
    [] Truth(state) = "ValueError" -> [status |-> "ValueError", ret |-> <<>>]
    [] Len(state) < 2 -> [status |-> "IndexError", ret |-> <<>>]
    [] OTHER -> [status |-> "ok",
                 ret |-> IF state[2] # Zero THEN PhaseDeg(state[2]) ELSE 0]

\* SingleSpin.angles: [self.theta(), self.phi()]
SingleSpin_angles(state) ==
  IF SingleSpin_theta(state).status # "ok" THEN SingleSpin_theta(state)
  ELSE IF SingleSpin_phi(state).status # "ok" THEN SingleSpin_phi(state)
  ELSE [status |-> "ok",
        ret |-> <<SingleSpin_theta(state).ret, SingleSpin_phi(state).ret>>]

\* ProductState without the asserts on its factors
FactorsUnchecked(A, B) == TRUE

\* the two asserts of ProductState on the factors
FactorsAccepted(A, B) == \A f \in {A, B} : IsUnit(f)

\* TwoSpin.ProductState: the two asserts on the factors, then the setter
TwoSpin_ProductState(state, A, B) ==
  IF FactorsAccepted(A, B)
  THEN TwoSpin_psi(state, KronVec(A, B))
  ELSE [status |-> "AssertionError", state |-> state]

TwoSpin_Singlet(state) == TwoSpin_psi(state, SingletState)

\* TwoSpin.Triplet: ValueError("Incorrect index " + str(i)) outside 1..3
TwoSpin_Triplet(state, i) ==
  IF i \in 1..3 THEN TwoSpin_psi(state, TripletState(i))
               ELSE [status |-> "ValueError", state |-> state]

(***************************************************************************)
(* two_spin_sim.py and single_spin_sim.py: preparation and directions.      *)
(* The angle fields hold deg2rad(value); the model keeps value, in degrees, *)
(* and takes the cosines and sines of it.                                   *)
(***************************************************************************)
TwoDefault == [stype |-> 3, m |-> FALSE, bloch_t |-> 1, bloch_p |-> 1]

\* the command lines of two_spin_sim.py that are run
TwoConfigs ==
  { TwoDefault,
    [TwoDefault EXCEPT !.stype = 8] }

\* the command line "-t 7" of two_spin_sim.py
PartialConfigs == {[TwoDefault EXCEPT !.stype = 7]}

\* the command lines "-t 1" and "-t 1 -m" (measure both systems) of
\* two_spin_sim.py, for sessions of several presses
BothConfigs ==
  {[TwoDefault EXCEPT !.stype = 1], [TwoDefault EXCEPT !.stype = 1, !.m = TRUE]}

\* the factors A and B of the product states of types 1 and 2
TwoFactorA(stype) ==
  IF stype = 1 THEN s_u ELSE VScale(InvSqrt2, VAdd(s_u, s_d))
TwoFactorB(stype) ==
  IF stype = 1 THEN s_d ELSE VAdd(VScale(Half, s_u), VScale(Sqrt3Half, s_d))

\* np.sqrt(0.6) = sqrt3/sqrt5 and np.sqrt(0.4) = sqrt2/sqrt5
Sqrt06 == [re |-> <<0, 0, 1, 0>>, im |-> <<0, 0, 0, 0>>, den |-> 1, root5 |-> 1]
Sqrt04 == [re |-> <<0, 1, 0, 0>>, im |-> <<0, 0, 0, 0>>, den |-> 1, root5 |-> 1]

\* the two weights exchanged: sqrt(0.4) |ud> - sqrt(0.6) |du>
PartialStateSwapped ==
  VSub(VScale(Sqrt04, BasisVector("ud")), VScale(Sqrt06, BasisVector("du")))

\* type 7: np.sqrt(0.6) * BasisVector('ud') - np.sqrt(0.4) * BasisVector('du')
PartialState ==
  VSub(VScale(Sqrt06, BasisVector("ud")), VScale(Sqrt04, BasisVector("du")))

\* SimulationThread.run of two_spin_sim.py: the state prepared for cfg.stype
TwoPrepared(stype) ==
  IF stype \in 1..2
  THEN TwoSpin_ProductState(None, TwoFactorA(stype), TwoFactorB(stype))
  ELSE IF stype = 3 THEN TwoSpin_Singlet(None)
  ELSE IF stype \in 4..6 THEN TwoSpin_Triplet(None, stype - 3)
  ELSE IF stype = 7 THEN TwoSpin_psi(None, PartialState)
  ELSE [status |-> "ValueError", state |-> None]

\* OpenGLWidget.directions of two_spin_sim.py
directions == [z |-> <<s_u, s_d>>, x |-> <<s_r, s_l>>, y |-> <<s_i, s_o>>]

\* the quarter turn of the "-1" vector added to theta before the Bloch scale
ApparatusDirectionsTurnScaled(theta, phi, bloch_t, bloch_p) ==
  Array([k \in 1..2 |->
     HalfAngleVector(((theta + 180 * (k - 1)) * bloch_t) \div 2,
                     phi * bloch_p)])

\* the "+1" and "-1" vectors measureAB builds for an apparatus
ApparatusDirections(theta, phi, bloch_t, bloch_p) ==
  Array([k \in 1..2 |->
     HalfAngleVector(90 * (k - 1) + (theta * bloch_t) \div 2, phi * bloch_p)])

\* the slider positions that are set
SliderInputs == {0, 90}

SliderDirections ==
  Table([theta \in SliderInputs, phi \in SliderInputs |->
     ApparatusDirections(theta, phi, 1, 1)])

\* the two apparatuses of epr_experiment.py at switches b1 and b2, from the
\* directions D of the widget
SwitchPair(D, b1, b2) ==
  [directions1 |-> <<D.direction1p[b1 + 1], D.direction1m[b1 + 1]>>,
   directions2 |-> <<D.direction2p[b2 + 1], D.direction2m[b2 + 1]>>]

\* the measurements that are worked out once and kept: those of a client on
\* the named states, those of epr_experiment.py with directions D and those
\* of two_spin_sim.py on the axes and at the slider positions S
LibKeys ==
  ({SingletState, KronVec(s_r, s_u), KronVec(s_u, s_u), KronVec(s_u, s_d)}
      \cup {TripletState(i) : i \in 1..3})
  \X DirectionInputs \X DirectionInputs \X BOOLEAN
EprKeys(psi, D) ==
  {<<psi, SwitchPair(D, b1, b2).directions1,
     SwitchPair(D, b1, b2).directions2, s>> :
      b1 \in Switches, b2 \in Switches, s \in BOOLEAN}
TwoKeys(psi, axes, S) ==
  {<<psi, axes[a], axes[a], TRUE>> : a \in DOMAIN axes}
  \cup {<<psi, dA, dB, s>> : dA \in S, dB \in S, s \in BOOLEAN}
Tabulated ==
  LibKeys
  \cup UNION {EprKeys(EprPrepared(c.stype), EprDirections[c]) :
                c \in {e \in EprConfigs \cup SessionConfigs \cup PolicyConfigs :
                         e.stype \in 1..4}}
  \cup UNION {TwoKeys(TwoPrepared(c.stype).state, directions,
                      {SliderDirections[p] : p \in DOMAIN SliderDirections}) :
                c \in {e \in TwoConfigs \cup PartialConfigs \cup BothConfigs :
                         e.stype \in 1..7}}

MeasurementTable ==
  Table([k \in Tabulated |-> Measurement(k[1], k[2], k[3], k[4])])
Lookup(k) ==
  IF k \in Tabulated THEN MeasurementTable[k]
  ELSE Measurement(k[1], k[2], k[3], k[4])

Measured(psi, directions1, directions2, simulate_1) ==
  Lookup(<<psi, directions1, directions2, simulate_1>>)

\* TwoSpin.Measure on the state held: every (status, state afterwards,
\* returned pair) the two draws can give.  outer(psi, psi.conj()).reshape(
\* 2, 2, 2, 2) raises ValueError unless psi has 4 entries.
TwoSpin_Measure(state, directions1, directions2, simulate_1, update) ==
  IF Len(state) # 4
  THEN {[status |-> "ValueError", state |-> state, sp |-> <<>>,
         ret |-> <<>>, zero_norm |-> FALSE]}
  ELSE {[status |-> "ok",
         state |-> StateAfterMeasure(state, state,
                     Projected(state, directions1, directions2, simulate_1,
                               m.sp1), update),
         sp |-> <<m.sp1, m.sp2>>,
         ret |-> MeasureReturn(m.sp1, m.sp2, simulate_1),
         zero_norm |-> m.zero_norm] :
        m \in Measured(state, directions1, directions2, simulate_1).samples}

\* OpenGLWidget.measureSpin of two_spin_sim.py on the widget's current_state,
\* which it reads and never assigns
measureSpin(psi, directionsA, directionsB, simulate_A) ==
  {[status |-> "ok",
    state |-> psi,
    sp |-> <<m.sp1, m.sp2>>,
    ret |-> measureSpinReturn(m.sp1, m.sp2, simulate_A),
    zero_norm |-> m.zero_norm] :
   m \in Measured(psi, directionsA, directionsB, simulate_A).samples}

\* the calls of measureSpin that measureAB makes one after the other, each on
\* the current_state the call before it left: every sequence of results
RECURSIVE Runs(_, _)
Runs(psi, todo) ==
  IF todo = <<>> THEN {<<>>}
  ELSE UNION {{<<m>> \o rest : rest \in Runs(m.state, Tail(todo))} :
                m \in measureSpin(psi, Head(todo)[1], Head(todo)[2],
                                  Head(todo)[3])}

\* both counters incremented whatever the value
updateCountBoth(p1, m1, value) ==
  [count_p1 |-> p1 + 1, count_m1 |-> m1 + 1, measurement |-> value]

\* updateCountA / updateCountB: the counters and the last measurement
updateCount(p1, m1, value) ==
  IF value = 1
  THEN [count_p1 |-> p1 + 1, count_m1 |-> m1, measurement |-> 1]
  ELSE [count_p1 |-> p1, count_m1 |-> m1 + 1, measurement |-> -1]

\* single_spin_sim.py
SingleConfigs == {[stype |-> 1], [stype |-> 3], [stype |-> 4]}

\* SimulationThread.run of single_spin_sim.py
SinglePrepared(stype) ==
  CASE stype = 1 -> [status |-> "ok", state |-> s_u]
    [] stype = 2 -> [status |-> "ok", state |-> s_l]
    [] stype = 3 -> [status |-> "ok", state |-> s_i]
    [] stype = 4 -> [status |-> "ok", state |-> s_u]
    [] OTHER -> [status |-> "ValueError", state |-> None]

\* the direction of the angles the widget is constructed with, kept
apparatus_direction_kept(theta, phi) == HalfAngleVector(0, 0)

apparatus_direction(theta, phi) == HalfAngleVector(theta \div 2, phi)
apparatus_opposite_direction(theta, phi) ==
  HalfAngleVector(90 + theta \div 2, phi)

\* prob_p1 of OpenGLWidget.measure of single_spin_sim.py
prob_p1(direction, psi) == Abs2(VDot(direction, psi))

\* a collapse onto the "+1" vector whatever the outcome
CollapsedOnPlus(stype, state, value, theta, phi) ==
  IF stype = 4 THEN apparatus_direction(theta, phi) ELSE state

\* on_button_clicked, type 4: the state handed to collapse_wave_function
Collapsed(stype, state, value, theta, phi) ==
  IF stype = 4
  THEN IF value = 1 THEN apparatus_direction(theta, phi)
       ELSE apparatus_opposite_direction(theta, phi)
  ELSE state

(***************************************************************************)
(* State.                                                                   *)
(***************************************************************************)
VARIABLES
  prog,           \* which program runs: "lib" is a client of mod_spin_operators
  cfg,            \* the cfg namespace of the script after argument processing
  spin,           \* TwoSpin.__state of the program's TwoSpin object
  sspin,          \* SingleSpin.__state of the client's SingleSpin object
  result,         \* the last call made: operation, arguments, status, value
  button1, button2, button1fix, button2fix, isFixed,
  measurement1, measurement2,
  measurements1, measurements2, switches1, switches2,
  remaining,      \* iterations left in the loop of measure(n)
  selections,     \* radio-button selections and slider moves made so far
  pc,             \* SimulationThread: "start", "loop" or "dead"
  thread_state,   \* SimulationThread.current_state
  inflight,       \* emitted results not yet delivered to store_simul_spin
  window_state,   \* MainWindow.current_state
  current_state,  \* OpenGLWidget.current_state
  a_thetaA, a_phiA, a_thetaB, a_phiB,
  measurementA, count_p1A, count_m1A, measurementB, count_p1B, count_m1B,
  sigma,
  a_theta, a_phi, measurement, count_p1, count_m1, num_measurements

eprVars == <<button1, button2, button1fix, button2fix, isFixed,
             measurement1, measurement2, measurements1, measurements2,
             switches1, switches2, remaining, selections>>
threadVars == <<pc, thread_state, inflight, window_state, current_state>>
twoVars == <<a_thetaA, a_phiA, a_thetaB, a_phiB, measurementA, count_p1A,
             count_m1A, measurementB, count_p1B, count_m1B, sigma>>
singleVars == <<a_theta, a_phi, measurement, count_p1, count_m1,
                num_measurements>>
simVars == <<threadVars, twoVars, singleVars>>
vars == <<prog, cfg, spin, result, sspin, eprVars, simVars>>

\* None in a field that otherwise holds an integer
Unset == 0

\* the number of radio-button selections a session makes
MaxSelect == 1

\* the number of selections in a session in which the mode is switched
MaxSwitching == 2

\* the number of selections the session of a command line makes
Selects(c) == IF c \in PolicyConfigs THEN MaxSwitching ELSE MaxSelect

\* the number of presses of "Measure" in a session of single_spin_sim.py,
\* and of "Measure A" / "Measure B" in the longer sessions of two_spin_sim.py
MaxClicks == 2

\* the number of presses the session of a command line of two_spin_sim.py
\* makes
Presses(c) == IF c \in BothConfigs THEN MaxClicks ELSE MaxLog

\* the record of a call: what it was given, the state it read, how it ended
Call(op, args, psi, status) ==
  [op |-> op, args |-> args, psi |-> psi, status |-> status,
   simulate_1 |-> FALSE, sp |-> <<>>, ret |-> <<>>, zero_norm |-> FALSE]

MeasureCall(op, args, psi, simulate_1, m) ==
  [op |-> op, args |-> args, psi |-> psi, status |-> m.status,
   simulate_1 |-> simulate_1, sp |-> m.sp, ret |-> m.ret,
   zero_norm |-> m.zero_norm]

NoCall == Call("none", <<>>, None, "ok")

EprIdle ==
  /\ button1 = Unset /\ button2 = Unset
  /\ button1fix = Unset /\ button2fix = Unset
  /\ isFixed = TRUE
  /\ measurement1 = Unset /\ measurement2 = Unset
  /\ measurements1 = <<>> /\ measurements2 = <<>>
  /\ switches1 = <<>> /\ switches2 = <<>>
  /\ remaining = 0 /\ selections = 0

SimIdle ==
  /\ pc = "dead" /\ thread_state = None /\ inflight = <<>>
  /\ window_state = None /\ current_state = None

NoSigma == [x |-> <<>>, y |-> <<>>, z |-> <<>>, th_ph |-> <<>>]

TwoIdle ==
  /\ a_thetaA = 0 /\ a_phiA = 0 /\ a_thetaB = 0 /\ a_phiB = 0
  /\ measurementA = Unset /\ count_p1A = 0 /\ count_m1A = 0
  /\ measurementB = Unset /\ count_p1B = 0 /\ count_m1B = 0
  /\ sigma = [A |-> NoSigma, B |-> NoSigma]

SingleIdle ==
  /\ a_theta = 0 /\ a_phi = 0 /\ measurement = Unset
  /\ count_p1 = 0 /\ count_m1 = 0 /\ num_measurements = 0

\* a client of mod_spin_operators with a fresh TwoSpin or a fresh SingleSpin
InitLib ==
  /\ prog = "lib"
  /\ cfg \in {[stype |-> 0, object |-> o] : o \in {"TwoSpin", "SingleSpin"}}
  /\ spin = None /\ sspin = None
  /\ result = NoCall
  /\ EprIdle /\ SimIdle /\ TwoIdle /\ SingleIdle

\* epr_experiment.py after OpenGLWidget.__init__ and MainWindow.initUI: the
\* C radio buttons are checked, and Fix unless an experiment was selected
EprStart(configs) ==
  /\ prog = "epr"
  /\ cfg \in configs
  /\ spin = EprPrepared(cfg.stype)
  /\ sspin = None
  /\ result = Call("OpenGLWidget", <<cfg.stype>>, None,
                   EprConstructError(cfg.stype))
  /\ IF cfg.stype \in 1..4
     THEN /\ button1 = 1 /\ button2 = 1 /\ button1fix = 1 /\ button2fix = 1
          /\ isFixed = (cfg.experiment < 0)
          /\ measurement1 = Unset /\ measurement2 = Unset
          /\ measurements1 = <<>> /\ measurements2 = <<>>
          /\ switches1 = <<>> /\ switches2 = <<>>
          /\ remaining = 0 /\ selections = 0
     ELSE EprIdle
  /\ SimIdle /\ TwoIdle /\ SingleIdle

InitEpr == EprStart(EprConfigs)

\* two_spin_sim.py after MainWindow.__init__: the thread is started and has
\* not run yet, nothing is published
TwoStart(configs) ==
  /\ prog = "two_spin"
  /\ cfg \in configs
  /\ spin = None /\ sspin = None
  /\ result = NoCall
  /\ pc = "start" /\ thread_state = None /\ inflight = <<>>
  /\ window_state = None /\ current_state = None
  /\ EprIdle /\ TwoIdle /\ SingleIdle

InitTwo == TwoStart(TwoConfigs)

\* single_spin_sim.py after MainWindow.__init__
InitSingle ==
  /\ prog = "single_spin"
  /\ cfg \in SingleConfigs
  /\ spin = None /\ sspin = None
  /\ result = NoCall
  /\ pc = "start" /\ thread_state = None /\ inflight = <<>>
  /\ window_state = None /\ current_state = None
  /\ EprIdle /\ TwoIdle /\ SingleIdle

(***************************************************************************)
(* The client of mod_spin_operators.                                        *)
(***************************************************************************)
CallProductState ==
  /\ prog = "lib" /\ cfg.object = "TwoSpin"
  /\ \E A \in FactorInputs, B \in FactorInputs :
       \E r \in {TwoSpin_ProductState(spin, A, B)} :
         /\ spin' = r.state
         /\ result' = Call("ProductState", <<A, B>>, spin, r.status)
  /\ UNCHANGED <<prog, cfg, sspin, eprVars, simVars>>

CallSinglet ==
  /\ prog = "lib" /\ cfg.object = "TwoSpin"
  /\ \E r \in {TwoSpin_Singlet(spin)} :
       /\ spin' = r.state
       /\ result' = Call("Singlet", <<>>, spin, r.status)
  /\ UNCHANGED <<prog, cfg, sspin, eprVars, simVars>>

CallTriplet ==
  /\ prog = "lib" /\ cfg.object = "TwoSpin"
  /\ \E i \in TripletInputs :
       \E r \in {TwoSpin_Triplet(spin, i)} :
         /\ spin' = r.state
         /\ result' = Call("Triplet", <<i>>, spin, r.status)
  /\ UNCHANGED <<prog, cfg, sspin, eprVars, simVars>>

AssignPsi ==
  /\ prog = "lib" /\ cfg.object = "TwoSpin"
  /\ \E value \in PsiInputs :
       \E r \in {TwoSpin_psi(spin, value)} :
         /\ spin' = r.state
         /\ result' = Call("TwoSpin.psi", <<value>>, spin, r.status)
  /\ UNCHANGED <<prog, cfg, sspin, eprVars, simVars>>

AssignSinglePsi ==
  /\ prog = "lib" /\ cfg.object = "SingleSpin"
  /\ \E value \in SinglePsiInputs :
       \E r \in {SingleSpin_psi(sspin, value)} :
         /\ sspin' = r.state
         /\ result' = Call("SingleSpin.psi", <<value>>, sspin, r.status)
  /\ UNCHANGED <<prog, cfg, spin, eprVars, simVars>>

\* theta(), phi() and angles() of the SingleSpin
SingleSpinCall(op, r) ==
  /\ prog = "lib" /\ cfg.object = "SingleSpin"
  /\ result' = [Call(op, <<>>, sspin, r.status) EXCEPT !.ret = r.ret]
  /\ UNCHANGED <<prog, cfg, spin, sspin, eprVars, simVars>>

CallTheta == SingleSpinCall("theta", SingleSpin_theta(sspin))

CallPhi == SingleSpinCall("phi", SingleSpin_phi(sspin))

CallAngles == SingleSpinCall("angles", SingleSpin_angles(sspin))

\* Measure on a TwoSpin that holds a state
CallMeasure ==
  /\ prog = "lib" /\ cfg.object = "TwoSpin"
  /\ spin # None
  /\ \E directions1 \in DirectionInputs, directions2 \in DirectionInputs,
        simulate_1 \in BOOLEAN, update \in BOOLEAN :
       \E m \in TwoSpin_Measure(spin, directions1, directions2,
                                simulate_1, update) :
         /\ spin' = m.state
         /\ result' = MeasureCall("Measure",
                                  <<directions1, directions2, update>>,
                                  spin, simulate_1, m)
  /\ UNCHANGED <<prog, cfg, sspin, eprVars, simVars>>

(***************************************************************************)
(* epr_experiment.py: the widget's handlers.  The Qt event loop runs one    *)
(* handler at a time, so no selection is handled while measure(n) loops.    *)
(***************************************************************************)
EprReady ==
  /\ prog = "epr"
  /\ result.status = "ok"
  /\ remaining = 0

\* idToggled reaches update_button1 with the id of a newly checked button
update_button1 ==
  /\ EprReady
  /\ selections < Selects(cfg)
  /\ \E value \in Switches :
       /\ value # button1fix
       /\ button1' = value
       /\ button1fix' = value
  /\ selections' = selections + 1
  /\ UNCHANGED <<prog, cfg, spin, result, sspin, simVars, button2, button2fix,
                 isFixed, measurement1, measurement2, measurements1,
                 measurements2, switches1, switches2, remaining>>

update_button2 ==
  /\ EprReady
  /\ selections < Selects(cfg)
  /\ \E value \in Switches :
       /\ value # button2fix
       /\ button2' = value
       /\ button2fix' = value
  /\ selections' = selections + 1
  /\ UNCHANGED <<prog, cfg, spin, result, sspin, simVars, button1, button1fix,
                 isFixed, measurement1, measurement2, measurements1,
                 measurements2, switches1, switches2, remaining>>

\* Fix selected without the buttons being set back to the selection
update_button3_unrestored ==
  /\ EprReady
  /\ selections < Selects(cfg)
  /\ isFixed' = ~isFixed
  /\ selections' = selections + 1
  /\ UNCHANGED <<prog, cfg, spin, result, sspin, simVars, button1, button2,
                 button1fix, button2fix, measurement1, measurement2,
                 measurements1, measurements2, switches1, switches2,
                 remaining>>

\* id 0 is Fix, id 1 is Random
update_button3 ==
  /\ EprReady
  /\ selections < Selects(cfg)
  /\ \E value \in {0, 1} :
       /\ value # (IF isFixed THEN 0 ELSE 1)
       /\ IF value = 0
          THEN /\ isFixed' = TRUE
               /\ button1' = button1fix
               /\ button2' = button2fix
          ELSE /\ isFixed' = FALSE
               /\ UNCHANGED <<button1, button2>>
  /\ selections' = selections + 1
  /\ UNCHANGED <<prog, cfg, spin, result, sspin, simVars, button1fix, button2fix,
                 measurement1, measurement2, measurements1, measurements2,
                 switches1, switches2, remaining>>

\* "Measure" calls measure(1); a session ends with cfg.n trials in the log
on_button1_clicked ==
  /\ EprReady
  /\ Len(measurements1) + 1 <= cfg.n
  /\ remaining' = 1
  /\ UNCHANGED <<prog, cfg, spin, result, sspin, simVars, button1, button2,
                 button1fix, button2fix, isFixed, measurement1, measurement2,
                 measurements1, measurements2, switches1, switches2,
                 selections>>

\* "Measure (n times)" calls measure(cfg.n)
on_button2_clicked ==
  /\ EprReady
  /\ Len(measurements1) + cfg.n <= cfg.n
  /\ remaining' = cfg.n
  /\ UNCHANGED <<prog, cfg, spin, result, sspin, simVars, button1, button2,
                 button1fix, button2fix, isFixed, measurement1, measurement2,
                 measurements1, measurements2, switches1, switches2,
                 selections>>

\* one iteration of the loop of measure(n)
measure ==
  /\ prog = "epr"
  /\ remaining > 0
  /\ \E b1 \in (IF isFixed THEN {button1} \cap Switches ELSE Switches),
        b2 \in (IF isFixed THEN {button2} \cap Switches ELSE Switches),
        simulate_1 \in {Less(random_number, Half) : random_number \in RandomDraws} :
       \E d \in {SwitchPair(EprDirections[cfg], b1, b2)} :
       \E m \in TwoSpin_Measure(spin, d.directions1, d.directions2,
                                simulate_1, FALSE) :
         LET got == EprAssign(m.ret, simulate_1)
             second == Invert(got.measurement2, cfg.invert)
         IN  /\ m.status = "ok"
             /\ button1' = b1
             /\ button2' = b2
             /\ switches1' = np_append(switches1, b1)
             /\ switches2' = np_append(switches2, b2)
             /\ spin' = m.state
             /\ result' = MeasureCall("Measure",
                             <<d.directions1, d.directions2>>, spin,
                             simulate_1, m)
             /\ measurement1' = got.measurement1
             /\ measurement2' = second
             /\ measurements1' = np_append(measurements1, got.measurement1)
             /\ measurements2' = np_append(measurements2, second)
  /\ remaining' = remaining - 1
  /\ UNCHANGED <<prog, cfg, sspin, simVars, button1fix, button2fix,
                 isFixed, selections>>

\* an id that is not the index of a switch: the three rows of direction1p /
\* direction2p have the indices 0, 1, 2
UnknownSwitch == 3

\* update_button1(value) / update_button2(value) called with such an id (the
\* radio buttons themselves only send 0, 1, 2)
update_button_unknown ==
  /\ EprReady
  /\ selections < Selects(cfg)
  /\ \/ /\ button1' = UnknownSwitch /\ button1fix' = UnknownSwitch
        /\ UNCHANGED <<button2, button2fix>>
     \/ /\ button2' = UnknownSwitch /\ button2fix' = UnknownSwitch
        /\ UNCHANGED <<button1, button1fix>>
  /\ selections' = selections + 1
  /\ UNCHANGED <<prog, cfg, spin, result, sspin, simVars, isFixed,
                 measurement1, measurement2, measurements1, measurements2,
                 switches1, switches2, remaining>>

\* an iteration of measure(n) in Fix mode with such an id: the two switches
\* are appended, then self.direction1p[self.button1] (or direction2p) raises
\* IndexError while the arguments of Measure are built, and the loop is left
measure_IndexError ==
  /\ prog = "epr"
  /\ remaining > 0
  /\ isFixed
  /\ {button1, button2} \cap {UnknownSwitch} # {}
  /\ switches1' = np_append(switches1, button1)
  /\ switches2' = np_append(switches2, button2)
  /\ result' = Call("measure", <<button1, button2>>, spin, "IndexError")
  /\ remaining' = 0
  /\ UNCHANGED <<prog, cfg, spin, sspin, simVars, button1, button2,
                 button1fix, button2fix, isFixed, measurement1, measurement2,
                 measurements1, measurements2, selections>>

(***************************************************************************)
(* The preparation thread and the window, common to the two simulations.    *)
(* Results emitted by the thread are queued to the GUI thread; a result     *)
(* equal to the one queued last is delivered with it, as storing the same   *)
(* state twice in a row is storing it once.                                 *)
(***************************************************************************)
\* SimulationThread.run up to the loop
run ==
  /\ prog \in {"two_spin", "single_spin"}
  /\ pc = "start"
  /\ \E r \in {IF prog = "two_spin" THEN TwoPrepared(cfg.stype)
                                   ELSE SinglePrepared(cfg.stype)} :
       /\ pc' = IF r.status = "ok" THEN "loop" ELSE "dead"
       /\ spin' = IF prog = "two_spin" THEN r.state ELSE spin
       /\ thread_state' = IF prog = "two_spin" THEN thread_state ELSE r.state
       /\ result' = Call("run", <<cfg.stype>>, None, r.status)
  /\ UNCHANGED <<prog, cfg, sspin, eprVars, inflight, window_state,
                 current_state, twoVars, singleVars>>

\* one iteration of the thread's loop: publish the state
emit ==
  /\ prog \in {"two_spin", "single_spin"}
  /\ pc = "loop"
  /\ thread_state' = IF prog = "two_spin" THEN spin ELSE thread_state
  /\ inflight' = IF inflight # <<>> /\ inflight[Len(inflight)] = thread_state'
                 THEN inflight
                 ELSE Append(inflight, thread_state')
  /\ UNCHANGED <<prog, cfg, spin, result, sspin, eprVars, pc, window_state,
                 current_state, twoVars, singleVars>>

store_simul_spin ==
  /\ prog \in {"two_spin", "single_spin"}
  /\ inflight # <<>>
  /\ window_state' = Head(inflight)
  /\ inflight' = Tail(inflight)
  /\ UNCHANGED <<prog, cfg, spin, result, sspin, eprVars, pc, thread_state,
                 current_state, twoVars, singleVars>>

(***************************************************************************)
(* two_spin_sim.py: sliders and the two measure buttons.                    *)
(***************************************************************************)
\* valueChanged reaches the handler with a value other than the current one
update_rotation_thetaA ==
  /\ prog = "two_spin"
  /\ selections < MaxSelect
  /\ \E value \in SliderInputs :
       /\ value # a_thetaA
       /\ a_thetaA' = value
  /\ selections' = selections + 1
  /\ UNCHANGED <<prog, cfg, spin, result, sspin, threadVars, singleVars,
                 a_phiA, a_thetaB, a_phiB, measurementA, count_p1A,
                 count_m1A, measurementB, count_p1B, count_m1B, sigma,
                 button1, button2, button1fix, button2fix, isFixed,
                 measurement1, measurement2, measurements1, measurements2,
                 switches1, switches2, remaining>>

update_rotation_phiA ==
  /\ prog = "two_spin"
  /\ selections < MaxSelect
  /\ \E value \in SliderInputs :
       /\ value # a_phiA
       /\ a_phiA' = value
  /\ selections' = selections + 1
  /\ UNCHANGED <<prog, cfg, spin, result, sspin, threadVars, singleVars,
                 a_thetaA, a_thetaB, a_phiB, measurementA, count_p1A,
                 count_m1A, measurementB, count_p1B, count_m1B, sigma,
                 button1, button2, button1fix, button2fix, isFixed,
                 measurement1, measurement2, measurements1, measurements2,
                 switches1, switches2, remaining>>

update_rotation_thetaB ==
  /\ prog = "two_spin"
  /\ selections < MaxSelect
  /\ \E value \in SliderInputs :
       /\ value # a_thetaB
       /\ a_thetaB' = value
  /\ selections' = selections + 1
  /\ UNCHANGED <<prog, cfg, spin, result, sspin, threadVars, singleVars,
                 a_thetaA, a_phiA, a_phiB, measurementA, count_p1A,
                 count_m1A, measurementB, count_p1B, count_m1B, sigma,
                 button1, button2, button1fix, button2fix, isFixed,
                 measurement1, measurement2, measurements1, measurements2,
                 switches1, switches2, remaining>>

update_rotation_phiB ==
  /\ prog = "two_spin"
  /\ selections < MaxSelect
  /\ \E value \in SliderInputs :
       /\ value # a_phiB
       /\ a_phiB' = value
  /\ selections' = selections + 1
  /\ UNCHANGED <<prog, cfg, spin, result, sspin, threadVars, singleVars,
                 a_thetaA, a_phiA, a_thetaB, measurementA, count_p1A,
                 count_m1A, measurementB, count_p1B, count_m1B, sigma,
                 button1, button2, button1fix, button2fix, isFixed,
                 measurement1, measurement2, measurements1, measurements2,
                 switches1, switches2, remaining>>

\* on_buttonA_clicked / on_buttonB_clicked before anything was published:
\* measureSpin reads None.conj() once current_state is assigned
measureAB_unset ==
  /\ prog = "two_spin"
  /\ window_state = None
  /\ \E measureA \in BOOLEAN :
       result' = Call("measureAB", <<measureA>>, None, "AttributeError")
  /\ current_state' = window_state
  /\ UNCHANGED <<prog, cfg, spin, sspin, eprVars, pc, thread_state,
                 inflight, window_state, twoVars, singleVars>>

\* the three axis measurements of measureAB, then the one along the sliders
Calls(axes, directionsA, directionsB, measureA) ==
  <<<<axes.z, axes.z, TRUE>>, <<axes.x, axes.x, TRUE>>,
    <<axes.y, axes.y, TRUE>>, <<directionsA, directionsB, measureA>>>>

\* measureAB(self.current_state, measureA): on_buttonA_clicked passes True,
\* on_buttonB_clicked False
measureAB ==
  /\ prog = "two_spin"
  /\ window_state # None
  /\ Len(sigma.A.z) < Presses(cfg)
  /\ \E measureA \in BOOLEAN :
     \E todo \in {Calls(directions,
                        ApparatusDirections(a_thetaA, a_phiA,
                                            cfg.bloch_t, cfg.bloch_p),
                        ApparatusDirections(a_thetaB, a_phiB,
                                            cfg.bloch_t, cfg.bloch_p),
                        measureA)} :
     \E ms \in Runs(window_state, todo) :
       LET doA == measureA \/ cfg.m
           doB == ~measureA \/ cfg.m
           cA == updateCount(count_p1A, count_m1A, ms[4].ret[1])
           cB == updateCount(count_p1B, count_m1B, ms[4].ret[2])
       IN  /\ current_state' = ms[4].state
           /\ sigma' =
                [A |-> [z |-> Append(sigma.A.z, ms[1].ret[1]),
                        x |-> Append(sigma.A.x, ms[2].ret[1]),
                        y |-> Append(sigma.A.y, ms[3].ret[1]),
                        th_ph |-> IF doA
                                  THEN Append(sigma.A.th_ph, ms[4].ret[1])
                                  ELSE sigma.A.th_ph],
                 B |-> [z |-> Append(sigma.B.z, ms[1].ret[2]),
                        x |-> Append(sigma.B.x, ms[2].ret[2]),
                        y |-> Append(sigma.B.y, ms[3].ret[2]),
                        th_ph |-> IF doB
                                  THEN Append(sigma.B.th_ph, ms[4].ret[2])
                                  ELSE sigma.B.th_ph]]
           /\ count_p1A' = IF doA THEN cA.count_p1 ELSE count_p1A
           /\ count_m1A' = IF doA THEN cA.count_m1 ELSE count_m1A
           /\ measurementA' = IF doA THEN cA.measurement ELSE measurementA
           /\ count_p1B' = IF doB THEN cB.count_p1 ELSE count_p1B
           /\ count_m1B' = IF doB THEN cB.count_m1 ELSE count_m1B
           /\ measurementB' = IF doB THEN cB.measurement ELSE measurementB
           /\ result' = MeasureCall("measureAB", <<todo[4][1], todo[4][2]>>,
                           <<window_state, ms[1].state, ms[2].state,
                             ms[3].state>>,
                           measureA, ms[4])
  /\ UNCHANGED <<prog, cfg, spin, sspin, eprVars, pc, thread_state,
                 inflight, window_state, a_thetaA, a_phiA, a_thetaB, a_phiB,
                 singleVars>>

(***************************************************************************)
(* single_spin_sim.py: sliders and the measure button.                      *)
(***************************************************************************)
update_rotation_theta ==
  /\ prog = "single_spin"
  /\ selections < MaxSelect
  /\ \E value \in SliderInputs :
       /\ value # a_theta
       /\ a_theta' = value
  /\ selections' = selections + 1
  /\ UNCHANGED <<prog, cfg, spin, result, sspin, threadVars, twoVars,
                 a_phi, measurement, count_p1, count_m1, num_measurements,
                 button1, button2, button1fix, button2fix, isFixed,
                 measurement1, measurement2, measurements1, measurements2,
                 switches1, switches2, remaining>>

update_rotation_phi ==
  /\ prog = "single_spin"
  /\ selections < MaxSelect
  /\ \E value \in SliderInputs :
       /\ value # a_phi
       /\ a_phi' = value
  /\ selections' = selections + 1
  /\ UNCHANGED <<prog, cfg, spin, result, sspin, threadVars, twoVars,
                 a_theta, measurement, count_p1, count_m1, num_measurements,
                 button1, button2, button1fix, button2fix, isFixed,
                 measurement1, measurement2, measurements1, measurements2,
                 switches1, switches2, remaining>>

\* on_button_clicked before anything was published: numpy.vdot(direction,
\* None) raises TypeError once current_state is assigned
on_button_clicked_unset ==
  /\ prog = "single_spin"
  /\ window_state = None
  /\ result' = Call("measure", <<a_theta, a_phi>>, None, "TypeError")
  /\ current_state' = window_state
  /\ UNCHANGED <<prog, cfg, spin, sspin, eprVars, pc, thread_state,
                 inflight, window_state, twoVars, singleVars>>

\* on_button_clicked: measure(self.current_state), then for type 4 the
\* thread's state becomes the eigenvector of the outcome
on_button_clicked ==
  /\ prog = "single_spin"
  /\ window_state # None
  /\ num_measurements < MaxClicks
  /\ LET direction == apparatus_direction(a_theta, a_phi)
         p == prob_p1(direction, window_state)
     IN  \E value \in {Outcome(random_number, p) : random_number \in RandomDraws} :
           /\ current_state' = window_state
           /\ num_measurements' = num_measurements + 1
           /\ count_p1' = IF value = 1 THEN count_p1 + 1 ELSE count_p1
           /\ count_m1' = IF value = 1 THEN count_m1 ELSE count_m1 + 1
           /\ measurement' = value
           /\ thread_state' = Collapsed(cfg.stype, thread_state, value,
                                        a_theta, a_phi)
           /\ result' = Call("measure", <<a_theta, a_phi>>, window_state,
                                "ok")
  /\ UNCHANGED <<prog, cfg, spin, sspin, eprVars, pc, inflight,
                 window_state, twoVars, a_theta, a_phi>>

Init == InitLib \/ InitEpr \/ InitTwo \/ InitSingle

Next ==
  \/ CallProductState
  \/ CallSinglet
  \/ CallTriplet
  \/ AssignPsi
  \/ AssignSinglePsi
  \/ CallMeasure
  \/ CallTheta
  \/ CallPhi
  \/ CallAngles
  \/ update_button1
  \/ update_button2
  \/ update_button3
  \/ on_button1_clicked
  \/ on_button2_clicked
  \/ measure
  \/ run
  \/ emit
  \/ store_simul_spin
  \/ update_rotation_thetaA
  \/ update_rotation_phiA
  \/ update_rotation_thetaB
  \/ update_rotation_phiB
  \/ measureAB_unset
  \/ measureAB
  \/ update_rotation_theta
  \/ update_rotation_phi
  \/ on_button_clicked_unset
  \/ on_button_clicked

Spec == Init /\ [][Next]_vars

(***************************************************************************)
(* epr_experiment.py: the statistics drawText works out from the four logs. *)
(* A boolean mask is the set of the indices where it is True; the percent   *)
(* values are the numbers handed to the formatter.                          *)
(***************************************************************************)
\* a figure that is not drawn
NotDrawn == [drawn |-> FALSE]

\* the number of entries equal to value, counted on the first entry alone
count_first(log, value) == IF log # <<>> /\ log[1] = value THEN 1 ELSE 0

\* np.count_nonzero(log == value)
count_nonzero(log, value) ==
  Cardinality({k \in 1..Len(log) : log[k] = value})

\* count / nb * 100
Percent(count, nb) == Rat(100 * count, nb)

\* the indices of mask where both logs hold the same value, counted
equal_mask(log1, log2, mask) == Cardinality({k \in mask : log1[k] = log2[k]})

\* lines 507-564: the same-switch and different-switch figures from the
\* masks and the counts; "% same results" is drawn when the mask is not empty
Agreement(m1, m2, same_mask, diff_mask, nb) ==
  [num_same |-> Percent(Cardinality(same_mask), nb),
   num_diff |-> Percent(Cardinality(diff_mask), nb),
   equal |-> Percent(equal_mask(m1, m2, 1..nb), nb),
   equal_same_mask |->
     IF same_mask # {}
     THEN Percent(equal_mask(m1, m2, same_mask), Cardinality(same_mask))
     ELSE NotDrawn,
   equal_diff_mask |->
     IF diff_mask # {}
     THEN Percent(equal_mask(m1, m2, diff_mask), Cardinality(diff_mask))
     ELSE NotDrawn]

\* lines 461-564, under "if self.measurement1": the marginal frequencies of
\* each apparatus and the agreement figures
Statistics(sw1, sw2, m1, m2) ==
  [measurements_nb |-> Len(m1),
   prob_p1 |-> Percent(count_nonzero(m1, 1), Len(m1)),
   prob_m1 |-> Percent(count_nonzero(m1, -1), Len(m1)),
   prob_p2 |-> Percent(count_nonzero(m2, 1), Len(m1)),
   prob_m2 |-> Percent(count_nonzero(m2, -1), Len(m1)),
   agreement |->
     Agreement(m1, m2, {k \in 1..Len(sw1) : sw1[k] = sw2[k]},
               {k \in 1..Len(sw1) : sw1[k] # sw2[k]}, Len(m1))]

\* the average of the two orderings, each counted once
PooledEvenly(prob, count1, prob2, count2) == CMul(Half, CAdd(prob, prob2))

\* line 627: (prob * count1 + prob2 * count2) / countnb
Pooled(prob, count1, prob2, count2) ==
  CMul(CAdd(CMul(prob, Rat(count1, 1)), CMul(prob2, Rat(count2, 1))),
       Rat(1, count1 + count2))

\* np.mean of the mask "first log is r_a and second log is r_b" over cond
MeanOver(cond, m1, m2, r_a, r_b) ==
  Rat(Cardinality({k \in cond : m1[k] = r_a /\ m2[k] = r_b}),
      Cardinality(cond))

\* lines 619-628 from the two masks
ProbabilityOver(cond1, cond2, m1, m2, r_1, r_2) ==
  IF cond2 # {}
  THEN Pooled(IF cond1 # {} THEN MeanOver(cond1, m1, m2, r_1, r_2) ELSE Zero,
              Cardinality(cond1),
              MeanOver(cond2, m1, m2, r_2, r_1), Cardinality(cond2))
  ELSE IF cond1 # {} THEN MeanOver(cond1, m1, m2, r_1, r_2)
  ELSE Zero

\* calculate_probabilities_exp2(sw_A, sw_B, r_1, r_2) on the four logs:
\* (countnb, prob)
calculate_probabilities_exp2(sw1, sw2, m1, m2, sw_A, sw_B, r_1, r_2) ==
  << Cardinality({k \in 1..Len(sw1) : sw1[k] = sw_A /\ sw2[k] = sw_B})
       + Cardinality({k \in 1..Len(sw1) : sw1[k] = sw_B /\ sw2[k] = sw_A}),
     ProbabilityOver({k \in 1..Len(sw1) : sw1[k] = sw_A /\ sw2[k] = sw_B},
                     {k \in 1..Len(sw1) : sw1[k] = sw_B /\ sw2[k] = sw_A},
                     m1, m2, r_1, r_2) >>

\* the inequality drawn as soon as one pair of switches has trials
BellReportAnyData(r01, r12, r02) ==
  IF r01[1] # 0 \/ r12[1] # 0 \/ r02[1] # 0
  THEN [drawn |-> TRUE, p1 |-> CMul(CAdd(r01[2], r12[2]), Rat(100, 1)),
        p2 |-> CMul(r02[2], Rat(100, 1)),
        violated |-> Less(CAdd(r01[2], r12[2]), r02[2])]
  ELSE NotDrawn

\* lines 570-594: "if c01 and c12 and c02": the two sides of the
\* inequality in percent and the verdict "p1 < p2"
BellReport(r01, r12, r02) ==
  IF r01[1] # 0 /\ r12[1] # 0 /\ r02[1] # 0
  THEN [drawn |-> TRUE, p1 |-> CMul(CAdd(r01[2], r12[2]), Rat(100, 1)),
        p2 |-> CMul(r02[2], Rat(100, 1)),
        violated |-> Less(CMul(CAdd(r01[2], r12[2]), Rat(100, 1)),
                          CMul(r02[2], Rat(100, 1)))]
  ELSE NotDrawn

\* lines 565-569: the three pooled probabilities of (+1, -1)
Bell(sw1, sw2, m1, m2) ==
  BellReport(calculate_probabilities_exp2(sw1, sw2, m1, m2, 0, 1, 1, -1),
             calculate_probabilities_exp2(sw1, sw2, m1, m2, 1, 2, 1, -1),
             calculate_probabilities_exp2(sw1, sw2, m1, m2, 0, 2, 1, -1))

\* what drawText shows of the logs: the statistics once a measurement was
\* made, the inequality in experiment 2
Snapshot(sw1, sw2, m1, m2, last, experiment) ==
  [statistics |->
     IF last # Unset THEN Statistics(sw1, sw2, m1, m2) ELSE NotDrawn,
   bell |-> IF experiment = 2 THEN Bell(sw1, sw2, m1, m2) ELSE NotDrawn]

(***************************************************************************)
(* The longer sessions of epr_experiment.py: several trials in one log, and *)
(* a predefined experiment started with other options on the command line.  *)
(***************************************************************************)
InitSession == EprStart(SessionConfigs)

NextSession ==
  \/ update_button1
  \/ update_button2
  \/ update_button3
  \/ on_button1_clicked
  \/ on_button2_clicked
  \/ measure

SpecSession == InitSession /\ [][NextSession]_vars

(***************************************************************************)
(* OpenGLWidget of epr_experiment.py driven by a caller of its handlers,    *)
(* which can hand update_button1 / update_button2 any id.                   *)
(***************************************************************************)
InitCaller == EprStart(SessionConfigs)

NextCaller ==
  \/ update_button1
  \/ update_button2
  \/ update_button3
  \/ on_button1_clicked
  \/ on_button2_clicked
  \/ measure
  \/ update_button_unknown
  \/ measure_IndexError

SpecCaller == InitCaller /\ [][NextCaller]_vars

(***************************************************************************)
(* epr_experiment.py: sessions in which Fix and Random mode alternate.      *)
(***************************************************************************)
InitPolicy == EprStart(PolicyConfigs)

SpecPolicy == InitPolicy /\ [][NextSession]_vars

(***************************************************************************)
(* two_spin_sim.py on the partially entangled state.                        *)
(***************************************************************************)
InitPartial == TwoStart(PartialConfigs)

NextPartial ==
  \/ run
  \/ emit
  \/ store_simul_spin
  \/ update_rotation_thetaA
  \/ update_rotation_phiA
  \/ update_rotation_thetaB
  \/ update_rotation_phiB
  \/ measureAB_unset
  \/ measureAB

SpecPartial == InitPartial /\ [][NextPartial]_vars

(***************************************************************************)
(* two_spin_sim.py: sessions of several presses, with and without -m.       *)
(***************************************************************************)
InitBoth == TwoStart(BothConfigs)

\* the sliders are left where they start
NextBoth ==
  \/ run
  \/ emit
  \/ store_simul_spin
  \/ measureAB_unset
  \/ measureAB

SpecBoth == InitBoth /\ [][NextBoth]_vars

(***************************************************************************)
(* The vectors of an apparatus as the three scripts build them, for the     *)
(* angles and the Bloch coefficients of the command line and the sliders.   *)
(***************************************************************************)
\* apparatus angles theta (steps of 30 degrees) and phi (quarter turns), and
\* the Bloch coefficients -b / -c: 1 for a spin, 2 for a photon
AngleInputs == {30 * k : k \in 0..11}
PhiInputs == {0, 90, 180, 270}
BlochInputs == {1, 2}

\* the ("+1", "-1") pairs a script builds: epr_experiment.py for the three
\* switches of apparatus 1 turned by theta, two_spin_sim.py for an apparatus
\* at the sliders theta, phi, single_spin_sim.py likewise (no Bloch scale)
BuiltDirections(c) ==
  CASE c.script = "epr" ->
         LET e == [EprDefault EXCEPT !.bloch_t = c.bloch_t,
                                     !.bloch_p = c.bloch_p]
         IN  Array([k \in 1..3 |->
                <<SwitchDirections(c.theta, c.phi, e, 0)[k],
                  SwitchDirections(c.theta, c.phi, e, 180)[k]>>])
    [] c.script = "two_spin" ->
         <<ApparatusDirections(c.theta, c.phi, c.bloch_t, c.bloch_p)>>
    [] c.script = "single_spin" ->
         <<<<apparatus_direction(c.theta, c.phi),
             apparatus_opposite_direction(c.theta, c.phi)>>>>

InitDirections ==
  /\ prog = "directions"
  /\ cfg \in [script : {"epr", "two_spin", "single_spin"},
              theta : AngleInputs, phi : PhiInputs,
              bloch_t : BlochInputs, bloch_p : BlochInputs]
  /\ cfg.script = "single_spin" => cfg.bloch_t = 1 /\ cfg.bloch_p = 1
  /\ spin = None /\ sspin = None
  /\ result = NoCall
  /\ EprIdle /\ SimIdle /\ TwoIdle /\ SingleIdle

\* the script builds its vectors
build_directions ==
  /\ prog = "directions"
  /\ result.op = "none"
  /\ result' = [Call("directions", <<cfg.theta, cfg.phi>>, None, "ok")
                  EXCEPT !.ret = BuiltDirections(cfg)]
  /\ UNCHANGED <<prog, cfg, spin, sspin, eprVars, simVars>>

SpecDirections == InitDirections /\ [][build_directions]_vars

(***************************************************************************)
(* The displays.  What drawText shows is a function of the logs and of the  *)
(* last measurement: it is applied to every log of up to MaxDrawn trials    *)
(* that a session can have filled.                                          *)
(***************************************************************************)
\* the longest log that is displayed
MaxDrawn == 3

\* a trial (switch 1, switch 2, entry of measurements1, entry of
\* measurements2) of the sessions displayed: with equal switches the two
\* entries are equal, for the singlet with inversion as for (uu + dd)/sqrt2
\* without it
DrawnTrials ==
  {t \in Switches \X Switches \X PlusMinus \X PlusMinus :
     t[1] = t[2] => t[3] = t[4]}
DrawnLogs == UNION {[1..n -> DrawnTrials] : n \in 0..MaxDrawn}

\* the sessions displayed: "-m 3" and "-m 3 -e 2"
PaintConfigs == <<main([m |-> MaxDrawn]), main([m |-> MaxDrawn, e |-> 2])>>

\* the k-th field of every trial of a log
Column(log, k) == Array([j \in 1..Len(log) |-> log[j][k]])
Last(log, k, default) == IF log = <<>> THEN default ELSE log[Len(log)][k]

\* epr_experiment.py between two clicks, the four logs filled by measure()
InitDrawn ==
  /\ prog = "epr"
  /\ \E k \in DOMAIN PaintConfigs : cfg = PaintConfigs[k]
  /\ spin = EprPrepared(cfg.stype)
  /\ sspin = None
  /\ \E log \in DrawnLogs :
       /\ switches1 = Column(log, 1)
       /\ switches2 = Column(log, 2)
       /\ measurements1 = Column(log, 3)
       /\ measurements2 = Column(log, 4)
       /\ button1 = Last(log, 1, 1) /\ button1fix = Last(log, 1, 1)
       /\ button2 = Last(log, 2, 1) /\ button2fix = Last(log, 2, 1)
       /\ measurement1 = Last(log, 3, Unset)
       /\ measurement2 = Last(log, 4, Unset)
       /\ result = IF log = <<>>
                   THEN Call("OpenGLWidget", <<cfg.stype>>, None, "ok")
                   ELSE Call("measure", <<1>>, None, "ok")
  /\ isFixed = (cfg.experiment < 0)
  /\ remaining = 0 /\ selections = 0
  /\ SimIdle /\ TwoIdle /\ SingleIdle

\* paintGL of epr_experiment.py reaches drawText, which reads the logs
drawText ==
  /\ prog = "epr"
  /\ result.status = "ok"
  /\ remaining = 0
  /\ result' = [Call("drawText", <<>>, None, "ok") EXCEPT
                  !.ret = Snapshot(switches1, switches2, measurements1,
                                   measurements2, measurement1,
                                   cfg.experiment)]
  /\ UNCHANGED <<prog, cfg, spin, sspin, eprVars, simVars>>

(***************************************************************************)
(* two_spin_sim.py: the correlations paintGL shows of the sigma series.     *)
(***************************************************************************)
RECURSIVE SumInt(_)
SumInt(series) ==
  IF series = <<>> THEN 0 ELSE Head(series) + SumInt(Tail(series))

\* len(a) * sum(a * b) - sum(a) * sum(b): the covariance of two series,
\* times len(a) squared
Covariance(a, b) ==
  Len(a) * SumInt([k \in 1..Len(a) |-> a[k] * b[k]]) - SumInt(a) * SumInt(b)

\* np.corrcoef(a, b)[0, 1] = cov / (stddev_a * stddev_b): 0/0, not a
\* number, when a series has no variance; otherwise the number of that
\* sign and that square
corrcoef(a, b) ==
  IF Covariance(a, a) = 0 \/ Covariance(b, b) = 0
  THEN [nan |-> TRUE, sign |-> 0, square |-> Zero]
  ELSE [nan |-> FALSE,
        sign |-> IF Covariance(a, b) < 0 THEN -1
                 ELSE IF Covariance(a, b) = 0 THEN 0 ELSE 1,
        square |-> Rat(Covariance(a, b) * Covariance(a, b),
                       Covariance(a, a) * Covariance(b, b))]

\* lines 270-303: the correlations drawn, each with "{:.2f}"
Correlations(sg, m) ==
  IF Len(sg.A.th_ph) > 0 /\ Len(sg.B.th_ph) > 0 /\ Len(sg.A.z) > 3
  THEN [drawn |-> TRUE,
        z |-> corrcoef(sg.A.z, sg.B.z),
        x |-> corrcoef(sg.A.x, sg.B.x),
        y |-> corrcoef(sg.A.y, sg.B.y),
        th_ph |-> IF m THEN corrcoef(sg.A.th_ph, sg.B.th_ph) ELSE NotDrawn]
  ELSE NotDrawn

\* the longest sigma series that is displayed
MaxSamples == 4

\* the outcomes of A on z, x, y in the presses of a session on the singlet
\* (B gives the opposite on each axis)
SampleRuns == UNION {[1..n -> PlusMinus \X PlusMinus \X PlusMinus] :
                       n \in 0..MaxSamples}

\* n entries of value
Repeat(value, n) == Array([k \in 1..n |-> value])

\* the series of A and of B after the presses, "Measure A" and
\* "Measure B" pressed in turn with the sliders at 0: A gave +1 and B -1
SigmaOf(presses, who) ==
  [z |-> Column(presses, 1), x |-> Column(presses, 2), y |-> Column(presses, 3),
   th_ph |-> Repeat(1, (Len(presses) + who) \div 2)]
Opposite(sg) ==
  [axis \in DOMAIN sg |-> Array([k \in 1..Len(sg[axis]) |-> -sg[axis][k]])]

\* two_spin_sim.py on the singlet between two presses
InitSampled ==
  /\ prog = "two_spin"
  /\ cfg = TwoDefault
  /\ spin = TwoPrepared(cfg.stype).state
  /\ sspin = None
  /\ pc = "loop" /\ thread_state = spin /\ inflight = <<>>
  /\ window_state = spin
  /\ \E presses \in SampleRuns :
       /\ sigma = [A |-> SigmaOf(presses, 1), B |-> Opposite(SigmaOf(presses, 0))]
       /\ current_state = IF presses = <<>> THEN None ELSE spin
       /\ result = IF presses = <<>>
                   THEN Call("run", <<cfg.stype>>, None, "ok")
                   ELSE Call("update", <<>>, None, "ok")
  /\ a_thetaA = 0 /\ a_phiA = 0 /\ a_thetaB = 0 /\ a_phiB = 0
  /\ count_p1A = Len(sigma.A.th_ph) /\ count_m1A = 0
  /\ count_p1B = 0 /\ count_m1B = Len(sigma.B.th_ph)
  /\ measurementA = IF count_p1A > 0 THEN 1 ELSE Unset
  /\ measurementB = IF count_m1B > 0 THEN -1 ELSE Unset
  /\ EprIdle /\ SingleIdle

\* paintGL of two_spin_sim.py
paintGL ==
  /\ prog = "two_spin"
  /\ result' = [Call("paintGL", <<>>, None, "ok") EXCEPT
                  !.ret = Correlations(sigma, cfg.m)]
  /\ UNCHANGED <<prog, cfg, spin, sspin, eprVars, simVars>>

InitPaint == InitDrawn \/ InitSampled
NextPaint == drawText \/ paintGL
SpecPaint == InitPaint /\ [][NextPaint]_vars

(***************************************************************************)
(* Properties.  A call is told by the record it leaves in result: the       *)
(* operation, its arguments, the state it read, the outcomes sp = (sp1,     *)
(* sp2) in the order of measurement and the pair ret it returned.           *)
(***************************************************************************)
MeasureDone == result.op = "Measure" /\ result.status = "ok"
measureABDone == result.op = "measureAB" /\ result.status = "ok"

\* (outcome of subsystem A, outcome of subsystem B) from the outcomes in the
\* order of measurement
OutcomeAB(sp, first_is_A) == IF first_is_A THEN sp ELSE <<sp[2], sp[1]>>

\* C1 as claimed: for both measurement orders TwoSpin.Measure and
\* OpenGLWidget.measureSpin return (outcome of A, outcome of B).
C1_AsClaimed ==
  (MeasureDone \/ measureABDone) =>
     result.ret = OutcomeAB(result.sp, result.simulate_1)

\* C1 as amended: measureSpin returns (outcome of A, outcome of B) for both
\* orders; TwoSpin.Measure returns the pair in the order of measurement, that
\* is (A, B) when simulate_1 is True and (B, A) when it is False, and the
\* loop of epr_experiment.py stores the outcome of A in measurement1 and the
\* outcome of B, inverted when cfg.invert is set, in measurement2.
C1_ReturnedPair ==
  /\ measureABDone => result.ret = OutcomeAB(result.sp, result.simulate_1)
  /\ MeasureDone => result.ret = result.sp
  /\ (MeasureDone /\ prog = "epr") =>
       /\ measurement1 = OutcomeAB(result.sp, result.simulate_1)[1]
       /\ measurement2 = OutcomeAB(result.sp, result.simulate_1)[2]
                           * (IF cfg.invert THEN -1 ELSE 1)

\* B measured first with two different outcomes, in measureSpin
C1_Witness ==
  /\ measureABDone
  /\ ~result.simulate_1
  /\ result.sp[1] # result.sp[2]
  /\ result.ret = <<result.sp[2], result.sp[1]>>

\* the probability of an outcome from the probability of "+1"; against a
\* probability that is not a number the comparison gives -1
ProbOf(p, outcome) ==
  IF IsNaN(p) THEN (IF outcome = 1 THEN Zero ELSE One)
  ELSE IF outcome = 1 THEN p ELSE CSub(One, p)

\* the probability that the spin measured first gives `first` and the other
\* one `second`
PairProb(m, first, second) ==
  CMul(ProbOf(m.prob_p11, first),
       ProbOf(m.prob_p12[IF first = 1 THEN 1 ELSE 2], second))

\* the "+1" and "-1" vectors of an apparatus set along a direction
IsApparatus(d) == IsUnit(d[1]) /\ IsUnit(d[2]) /\ VDot(d[1], d[2]) = Zero

\* the distribution of (outcomeA, outcomeB) does not depend on the order
SameDistribution(first_A, first_B) ==
  \A a \in {1, -1}, b \in {1, -1} :
     PairProb(first_A, a, b) = PairProb(first_B, b, a)

\* with both pairs of directions orthonormal, the distribution is the same
\* in the two orders; worked out once for the measurements that are kept
OrderInvariantAt(psi, directions1, directions2) ==
  (IsApparatus(directions1) /\ IsApparatus(directions2)) =>
     SameDistribution(Measured(psi, directions1, directions2, TRUE),
                      Measured(psi, directions1, directions2, FALSE))
OrderTable ==
  Table([k \in Tabulated |-> OrderInvariantAt(k[1], k[2], k[3])])

\* C2: for every state Measure is called on and every pair of apparatus
\* directions it is called with, each pair (outcomeA, outcomeB) has the same
\* probability when A is measured first as when B is measured first.
C2_OrderInvariance ==
  MeasureDone =>
     LET k == <<result.psi, result.args[1], result.args[2],
                result.simulate_1>>
     IN  IF k \in Tabulated THEN OrderTable[k]
         ELSE OrderInvariantAt(k[1], k[2], k[3])

\* the singlet measured B first at two different switches: (+1, +1) has
\* probability 3/8
C2_Witness ==
  /\ MeasureDone /\ prog = "epr" /\ ~result.simulate_1
  /\ result.psi = SingletState
  /\ result.args[1] # result.args[2]
  /\ PairProb(Measured(result.psi, result.args[1], result.args[2], FALSE),
              1, 1) = Rat(3, 8)

\* C3: singlet, the same angles on both apparatuses, inversion on: every
\* logged trial with equal switches has equal outcomes.
C3_SameSwitchAgreement ==
  (/\ prog = "epr" /\ cfg.stype = 1 /\ cfg.invert
   /\ cfg.theta1 = cfg.theta2 /\ cfg.phi1 = cfg.phi2) =>
     \A k \in 1..Len(measurements1) :
        switches1[k] = switches2[k] => measurements1[k] = measurements2[k]

\* a logged same-switch trial of that configuration, B measured first
C3_Witness ==
  /\ prog = "epr" /\ cfg.stype = 1 /\ cfg.invert
  /\ cfg.theta1 = cfg.theta2 /\ cfg.phi1 = cfg.phi2
  /\ MeasureDone /\ ~result.simulate_1
  /\ Len(measurements1) > 0
  /\ switches1[1] = switches2[1]
  /\ measurements1[1] = measurements2[1]

\* the state held by the TwoSpin of the EPR widget and the state its last
\* trial read are the state given
EprKept(prepared) ==
  /\ result.status = "ok" => spin = prepared
  /\ MeasureDone => result.psi = prepared

\* the four measurements of the last measureAB read the state given, which
\* is still the widget's current_state
TwoKept(prepared) ==
  measureABDone =>
     /\ \A k \in 1..4 : result.psi[k] = prepared
     /\ current_state = prepared

\* C4: every trial of the EPR experiment and each of the four measurements
\* of one measureAB reads the state that was prepared, and the state held
\* afterwards is still that state.
C4_PreparedStateKept ==
  /\ prog = "epr" => EprKept(EprPrepared(cfg.stype))
  /\ prog = "two_spin" => TwoKept(TwoPrepared(cfg.stype).state)

\* the log of the EPR experiment is full and the singlet is still held
C4_Witness ==
  /\ prog = "epr" /\ MeasureDone
  /\ Len(measurements1) = MaxLog
  /\ result.psi = SingletState /\ spin = SingletState

Entries(log) == {log[k] : k \in 1..Len(log)}

\* C5: every logged outcome of the three programs, and every last-outcome
\* field once set, is +1 or -1.
C5_OutcomesPlusMinus ==
  /\ Entries(measurements1) \cup Entries(measurements2) \subseteq PlusMinus
  /\ \A s \in {"A", "B"} : \A a \in {"z", "x", "y", "th_ph"} :
        Entries(sigma[s][a]) \subseteq PlusMinus
  /\ num_measurements > 0 => measurement \in PlusMinus
  /\ \A v \in {measurement1, measurement2, measurementA, measurementB,
               measurement} : v = Unset \/ v \in PlusMinus

\* an inverted outcome of apparatus 2 is in the log
C5_Witness ==
  /\ prog = "epr" /\ cfg.invert /\ MeasureDone
  /\ measurements2 # <<>>
  /\ measurements2[Len(measurements2)] = -1 * OutcomeAB(result.sp,
                                                         result.simulate_1)[2]

\* C6: whatever calls were made on it, failed ones included, a TwoSpin holds
\* no state or a vector of norm 1.
C6_UnitNorm == spin = None \/ IsUnit(spin)

\* a psi assignment just failed and a state is held
C6_Witness ==
  /\ prog = "lib"
  /\ result.op = "TwoSpin.psi" /\ result.status = "AssertionError"
  /\ ~IsUnit(result.args[1])
  /\ spin # None

\* C7: a ProductState call with a factor that is not of norm 1 ends in an
\* error and leaves the state held as it was before the call.
C7_ProductStateRejects ==
  (/\ result.op = "ProductState"
   /\ \E k \in 1..2 : ~IsUnit(result.args[k]))
  => (result.status = "AssertionError" /\ spin = result.psi)

\* a rejected ProductState whose factors have a product of norm 1, on an
\* object that holds a state
C7_Witness ==
  /\ result.op = "ProductState"
  /\ ~IsUnit(result.args[1]) /\ ~IsUnit(result.args[2])
  /\ IsUnit(KronVec(result.args[1], result.args[2]))
  /\ result.status = "AssertionError"
  /\ spin # None /\ spin = result.psi

\* C8 as claimed: an unrecognized kind code ends in the error that names it
\* (ValueError) and nothing is prepared: Triplet(i) outside 1..3 leaves the
\* state as it was, and so do the EPR widget and the two-spin thread with a
\* type outside the documented range.
C8_AsClaimed ==
  /\ (result.op = "Triplet" /\ result.args[1] \notin 1..3) =>
        (result.status = "ValueError" /\ spin = result.psi)
  /\ (prog = "epr" /\ result.op = "OpenGLWidget" /\ cfg.stype \notin 1..4) =>
        (result.status = "ValueError" /\ spin = None)
  /\ (prog = "two_spin" /\ result.op = "run" /\ cfg.stype \notin 1..7) =>
        (result.status = "ValueError" /\ spin = None /\ pc = "dead")

\* C9 as claimed: a vector of the wrong dimension is rejected and the state
\* stays as it was, also when the vector has norm 1: by the two psi setters
\* and, for a factor, by ProductState.
C9_AsClaimed ==
  /\ (result.op = "TwoSpin.psi" /\ Len(result.args[1]) # 4) =>
        (result.status # "ok" /\ spin = result.psi)
  /\ (result.op = "SingleSpin.psi" /\ Len(result.args[1]) # 2) =>
        (result.status # "ok" /\ sspin = result.psi)
  /\ (result.op = "ProductState"
      /\ \E k \in 1..2 : Len(result.args[k]) # 2) =>
        (result.status # "ok" /\ spin = result.psi)

\* C10 as claimed: when the projected vector has norm zero the measurement
\* ends in an error and no outcome pair is returned or logged.
C10_AsClaimed ==
  result.zero_norm => (result.status # "ok" /\ result.ret = <<>>)


(***************************************************************************)
(* The logs of epr_experiment.py.                                           *)
(***************************************************************************)
Logs == <<switches1, switches2, measurements1, measurements2>>

\* log grows by exactly one entry and keeps every earlier entry
OneAppended(log, after) ==
  Len(after) = Len(log) + 1 /\ SubSeq(after, 1, Len(log)) = log

\* what a step may do to the logs and to the trials left of measure(n)
LogStep ==
  /\ (remaining > 0) =>
        (/\ remaining' = remaining - 1
         /\ \A k \in 1..4 : OneAppended(Logs[k], Logs'[k]))
  /\ (remaining = 0) =>
        (/\ Logs' = Logs
         /\ remaining' \in {0, 1, cfg.n})

\* C11: measure(n) runs n trials and stops: a click starts the loop with n
\* trials to go (n = 1 or n = cfg.n) and leaves the logs alone, every trial
\* appends exactly one entry to each of the four logs without changing an
\* earlier entry and leaves one trial less to go, nothing else touches the
\* logs, and between calls the four logs have the same length.
C11_LogsAppendOnly ==
  /\ [](remaining = 0 =>
          \A k \in 1..4 : Len(Logs[k]) = Len(measurements1))
  /\ [][LogStep]_vars

\* two trials of one call of measure(cfg.n) are in the logs, with different
\* outcomes at apparatus 1
C11_Witness ==
  /\ prog = "epr" /\ MeasureDone /\ remaining = 0
  /\ cfg.n = MaxLog + 1
  /\ Len(measurements1) = cfg.n
  /\ Len(switches2) = cfg.n
  /\ measurements1[1] # measurements1[cfg.n]

\* C12: the inversion of apparatus 2 only changes what is displayed: the
\* value logged for apparatus 2 is the outcome Measure gave for it, with
\* cfg.invert as without.
C12_AsClaimed ==
  (prog = "epr" /\ MeasureDone) =>
     measurements2[Len(measurements2)] =
        OutcomeAB(result.sp, result.simulate_1)[2]

(***************************************************************************)
(* The two documented singlet configurations.                               *)
(***************************************************************************)
\* singlet, Bloch scale 1, and either inversion with theta2 = theta1 or no
\* inversion with theta2 = theta1 + 180 degrees
IsDocumented(c) ==
  /\ c.stype = 1 /\ c.bloch_t = 1
  /\ \/ c.invert /\ c.theta2 = c.theta1
     \/ ~c.invert /\ c.theta2 = c.theta1 + 180

\* the other documented configuration
Counterpart(c) ==
  [c EXCEPT !.invert = ~c.invert,
            !.theta2 = IF c.invert THEN c.theta1 + 180 ELSE c.theta1]

\* the probability that apparatus 1 gives v1 and apparatus 2 gives v2, from
\* the probabilities m of a trial in the order simulate_1
ApparatusProb(m, simulate_1, v1, v2) ==
  IF simulate_1 THEN PairProb(m, v1, v2) ELSE PairProb(m, v2, v1)

\* the probability that a trial of configuration c at switches b1, b2 logs
\* (v1, v2): apparatus 2 gave Invert(v2, c.invert)
RecordedProb(c, b1, b2, simulate_1, v1, v2) ==
  ApparatusProb(
     Measured(EprPrepared(c.stype),
              SwitchPair(EprDirections[c], b1, b2).directions1,
              SwitchPair(EprDirections[c], b1, b2).directions2, simulate_1),
     simulate_1, v1, Invert(v2, c.invert))

\* each of the four recorded pairs is as probable in configuration c as in
\* the other one, at the switches b1, b2 and in the order simulate_1; worked
\* out once for the documented configurations
ConfigurationsAgree(c, b1, b2, simulate_1) ==
  \A v1 \in PlusMinus, v2 \in PlusMinus :
     RecordedProb(c, b1, b2, simulate_1, v1, v2)
        = RecordedProb(Counterpart(c), b1, b2, simulate_1, v1, v2)
AgreeTable ==
  Table([k \in {c \in EprConfigs : IsDocumented(c)} \X Switches \X Switches
                \X BOOLEAN |->
           ConfigurationsAgree(k[1], k[2], k[3], k[4])])

\* C19: for the singlet at Bloch scale 1, the configuration with inversion
\* and theta2 = theta1 and the configuration without inversion and theta2 =
\* theta1 + 180 give every recorded pair (measurement1, measurement2) the
\* same probability: after every trial of one of them, at the switches and
\* in the order of that trial, each of the four pairs is as probable as in
\* the other configuration.
C19_ConfigurationsEquivalent ==
  (prog = "epr" /\ IsDocumented(cfg) /\ MeasureDone) =>
     LET k == <<cfg, switches1[Len(switches1)], switches2[Len(switches2)],
                result.simulate_1>>
     IN  IF cfg \in EprConfigs THEN AgreeTable[k]
         ELSE ConfigurationsAgree(k[1], k[2], k[3], k[4])

\* a trial of the configuration without inversion at two different
\* switches, B measured first, that logged (+1, +1)
C19_Witness ==
  /\ prog = "epr" /\ IsDocumented(cfg) /\ ~cfg.invert
  /\ MeasureDone /\ ~result.simulate_1
  /\ switches1[1] # switches2[1]
  /\ measurements1[1] = 1 /\ measurements2[1] = 1
  /\ Counterpart(cfg) \in EprConfigs

(***************************************************************************)
(* single_spin_sim.py: the state the thread publishes.                      *)
(***************************************************************************)
\* the eigenvector of the outcome for an apparatus at theta, phi
Eigenvector(value, theta, phi) ==
  IF value = 1 THEN apparatus_direction(theta, phi)
  ELSE apparatus_opposite_direction(theta, phi)

\* type 4, after a measurement: the thread holds the eigenvector of the
\* last outcome for the angles of that click
CollapseKept ==
  (/\ prog = "single_spin" /\ cfg.stype = 4
   /\ result.op = "measure" /\ result.status = "ok") =>
     thread_state = Eigenvector(measurement, result.args[1], result.args[2])

\* types 1, 2, 3: the thread holds, and everything published is, the state
\* that was prepared
PreparedPublished ==
  (prog = "single_spin" /\ cfg.stype \in 1..3 /\ pc = "loop") =>
     /\ thread_state = SinglePrepared(cfg.stype).state
     /\ \A k \in 1..Len(inflight) : inflight[k] = thread_state
     /\ window_state \in {None, thread_state}

\* a tick of the thread publishes the state the thread holds
TickPublishes ==
  (prog = "single_spin" /\ emit) =>
     /\ inflight' # <<>>
     /\ inflight'[Len(inflight')] = thread_state

\* C13: in type 4 a measurement with outcome s leaves the thread with the
\* "+1" eigenvector of the apparatus (angles of the click) if s = +1 and
\* with the "-1" eigenvector if s = -1, and every tick until the next
\* measurement publishes that state; in types 1, 2 and 3 the state held and
\* published is the prepared state after any number of measurements.
C13_CollapsePersistence ==
  /\ [](CollapseKept /\ PreparedPublished)
  /\ [][TickPublishes]_vars

\* type 4 with the apparatus at theta = 90: the outcome was -1, the thread
\* holds the "-1" eigenvector and the window has received it
C13_Witness ==
  /\ prog = "single_spin" /\ cfg.stype = 4
  /\ result.op = "measure" /\ result.status = "ok"
  /\ a_theta = 90 /\ measurement = -1 /\ num_measurements > 0
  /\ thread_state = apparatus_opposite_direction(90, a_phi)
  /\ window_state = thread_state
  /\ window_state # SinglePrepared(cfg.stype).state

(***************************************************************************)
(* epr_experiment.py: the predefined experiments.                           *)
(***************************************************************************)
\* the physical variables of cfg
Physical ==
  {"stype", "appthetaL", "appthetaC", "appthetaR", "theta1", "theta2",
   "phi1", "phi2", "invert", "bloch_t", "bloch_p"}

\* C20: with -e 1 or -e 2 every physical variable of cfg has, after
\* argument processing, the value it has when the experiment is selected
\* with no other option, whatever other options were given.
C20_AsClaimed ==
  (prog = "epr" /\ cfg.experiment \in {1, 2}) =>
     \A f \in Physical : cfg[f] = main([e |-> cfg.experiment])[f]

(***************************************************************************)
(* The statistics of epr_experiment.py as functions of the recorded trials. *)
(***************************************************************************)
DrawTextDone == prog = "epr" /\ result.op = "drawText"

\* the recorded trials whose switch pair is (A, B) or (B, A)
TrialsAt(A, B) ==
  {k \in 1..Len(switches1) :
     <<switches1[k], switches2[k]>> \in {<<A, B>>, <<B, A>>}}

\* those in which the apparatus set to A gave r1 and the one set to B gave r2
HitsAt(A, B, r1, r2) ==
  {k \in TrialsAt(A, B) :
     IF switches1[k] = A
     THEN measurements1[k] = r1 /\ measurements2[k] = r2
     ELSE measurements2[k] = r1 /\ measurements1[k] = r2}

\* the pooled fraction, 0 without trials
FractionAt(A, B, r1, r2) ==
  IF TrialsAt(A, B) = {} THEN Zero
  ELSE Rat(Cardinality(HitsAt(A, B, r1, r2)), Cardinality(TrialsAt(A, B)))

\* C14: for two distinct switch settings A and B and outcomes r1, r2,
\* calculate_probabilities_exp2 returns the number of recorded trials at
\* (A, B) or (B, A) and the fraction of them in which the apparatus set to
\* A gave r1 and the apparatus set to B gave r2, 0 when there is no trial.
C14_PooledProbability ==
  DrawTextDone =>
     \A A \in Switches, B \in Switches, r1 \in PlusMinus, r2 \in PlusMinus :
        A # B =>
          calculate_probabilities_exp2(switches1, switches2, measurements1,
                                       measurements2, A, B, r1, r2)
            = <<Cardinality(TrialsAt(A, B)), FractionAt(A, B, r1, r2)>>

\* two trials at (L, C), one of them (+1, -1), and one trial at (C, L) that
\* gave (-1, +1): the pooled probability of (L+, C-) is 2/3, not the 3/4 of
\* the two fractions averaged
C14_Witness ==
  /\ DrawTextDone
  /\ Len(switches1) = 3
  /\ Cardinality({k \in 1..3 : switches1[k] = 0 /\ switches2[k] = 1}) = 2
  /\ Cardinality({k \in 1..3 : switches1[k] = 1 /\ switches2[k] = 0}) = 1
  /\ calculate_probabilities_exp2(switches1, switches2, measurements1,
                                  measurements2, 0, 1, 1, -1) = <<3, Rat(2, 3)>>
  /\ FractionAt(1, 0, -1, 1) = Rat(2, 3)

\* each of the pairs (L, C), (C, R), (L, R) has a recorded trial
AllPairsTried ==
  \A q \in {<<0, 1>>, <<1, 2>>, <<0, 2>>} : TrialsAt(q[1], q[2]) # {}

\* N(L+, C-) + N(C+, R-) is strictly below N(L+, R-)
LeftBelowRight ==
  Less(CAdd(FractionAt(0, 1, 1, -1), FractionAt(1, 2, 1, -1)),
       FractionAt(0, 2, 1, -1))

Permuted(log, p) == Array([k \in 1..Len(log) |-> log[p[k]]])

\* the statistics and the three Bell probabilities of the logs permuted by
\* p are those shown and bell
SnapshotKept(p, shown, bell) ==
  /\ Snapshot(Permuted(switches1, p), Permuted(switches2, p),
              Permuted(measurements1, p), Permuted(measurements2, p),
              measurement1, cfg.experiment) = shown
  /\ Bell(Permuted(switches1, p), Permuted(switches2, p),
          Permuted(measurements1, p), Permuted(measurements2, p)) = bell

\* C17: the marginal frequencies, the same-switch and different-switch
\* shares and agreement fractions and the pooled Bell probabilities that
\* drawText works out are the same for every permutation of the recorded
\* trials, applied to the four logs alike.
C17_OrderIndependent ==
  DrawTextDone =>
     \A p \in Permutations(1..Len(switches1)) :
        SnapshotKept(p, result.ret,
                     Bell(switches1, switches2, measurements1, measurements2))

\* three different trials, one of them with equal switches, were drawn
C17_Witness ==
  /\ DrawTextDone
  /\ Len(switches1) = 3
  /\ switches1[1] = switches2[1] /\ switches1[2] # switches2[2]
  /\ measurements1[2] # measurements1[3]
  /\ measurements2[1] # measurements2[2]
  /\ result.ret.statistics.prob_p1 \notin {Zero, Rat(100, 1)}
  /\ result.ret.statistics.agreement.equal_diff_mask # NotDrawn

(***************************************************************************)
(* two_spin_sim.py: the correlations.                                       *)
(***************************************************************************)
\* a correlation that is a number between -1 and 1
IsCorrelation(r) == ~r.nan /\ ~Less(One, r.square)

\* C16: correlations are drawn only with at least 4 paired samples of the
\* axis, and each one drawn is a number between -1 and 1, never NaN.
C16_AsClaimed ==
  (prog = "two_spin" /\ result.op = "paintGL" /\ result.ret.drawn) =>
     /\ Len(sigma.A.z) >= 4
     /\ \A axis \in {"z", "x", "y"} : IsCorrelation(result.ret[axis])

(***************************************************************************)
(* The partially entangled state.                                           *)
(***************************************************************************)
\* the probability that A gives +1, from the probabilities m of a joint
\* measurement in the order simulate_A
ProbAPlus(m, simulate_A) ==
  IF simulate_A THEN m.prob_p11
  ELSE CAdd(PairProb(m, 1, 1), PairProb(m, -1, 1))

\* an apparatus whose "+1" vector is |u>
AlongZ(d) == d[1] = s_u

\* C18: on sqrt(0.6)|ud> - sqrt(0.4)|du> a joint measurement with A along
\* z gives A = +1 with probability 0.6: A measured first, whatever the
\* direction of B (the axis measurement and the slider measurement of
\* "Measure A"), and B measured first along z (the slider measurement of
\* "Measure B").
C18_PartialStateMarginal ==
  (prog = "two_spin" /\ cfg.stype = 7 /\ measureABDone) =>
     /\ ProbAPlus(Measured(result.psi[1], directions.z, directions.z, TRUE),
                  TRUE) = Rat(3, 5)
     /\ (AlongZ(result.args[1])
           /\ (result.simulate_1 \/ AlongZ(result.args[2]))) =>
          ProbAPlus(Measured(result.psi[4], result.args[1], result.args[2],
                             result.simulate_1),
                    result.simulate_1) = Rat(3, 5)

\* "Measure B" with both sliders at 0: B was measured first and gave -1,
\* with probability 0.6, and A then gave +1
C18_Witness ==
  /\ prog = "two_spin" /\ cfg.stype = 7 /\ measureABDone
  /\ ~result.simulate_1
  /\ AlongZ(result.args[1]) /\ AlongZ(result.args[2])
  /\ result.psi[4] = PartialState
  /\ result.ret = <<1, -1>>
  /\ Measured(result.psi[4], result.args[1], result.args[2],
              FALSE).prob_p11 = Rat(2, 5)

(***************************************************************************)
(* TwoSpin.Measure with update set.                                         *)
(***************************************************************************)
\* state is the unit vector along projected: normalize(projected)
IsNormalized(state, projected) ==
  /\ Len(state) = Len(projected)
  /\ Norm2(state) = One
  /\ \A j \in 1..Len(state), k \in 1..Len(state) :
        CMul(state[j], projected[k]) = CMul(state[k], projected[j])
  /\ Sign(VDot(projected, state)) = 1

\* a call Measure(directions1, directions2, simulate_1, update = True) on a
\* two-spin state that returned a pair
MeasureUpdated ==
  /\ prog = "lib" /\ MeasureDone /\ Len(result.args) = 3 /\ result.args[3]

\* C21 as claimed: after Measure with update = True the state stored is
\* normalize(P . psi), P the joint projector of the first outcome.
C21_AsClaimed ==
  (MeasureUpdated /\ ~result.zero_norm) =>
     IsNormalized(spin, Projected(result.psi, result.args[1], result.args[2],
                                  result.simulate_1, result.sp[1]))

(***************************************************************************)
(* epr_experiment.py: a trial and the four logs.                            *)
(***************************************************************************)
\* C22 as claimed: the switches of a trial are in the log only with its two
\* outcomes, so that once measure(n) is over or has failed the four logs
\* hold the same trials.
C22_AsClaimed ==
  (prog = "epr" /\ remaining = 0) =>
     /\ Len(switches1) = Len(measurements1)
     /\ Len(switches2) = Len(measurements2)
     /\ Len(switches1) = Len(switches2)

(***************************************************************************)
(* single_spin_sim.py, type 4: the state a later measurement is made on.    *)
(***************************************************************************)
\* a press of "Measure" in type 4 after an earlier one
LaterClick ==
  /\ prog = "single_spin" /\ cfg.stype = 4
  /\ num_measurements >= 1
  /\ num_measurements' = num_measurements + 1

\* C23 as claimed: in type 4 every measurement after an earlier one is
\* computed on the state the earlier one collapsed the spin to, which is
\* the state the thread holds, whatever the order of clicks and ticks.
C23_AsClaimed == [][LaterClick => result'.psi = thread_state]_vars

(***************************************************************************)
(* The directions a measurement is made along.                              *)
(***************************************************************************)
\* the "+1" and "-1" vectors of the angles theta, phi (degrees) at the
\* Bloch scale bloch_t, bloch_p
VectorsAt(theta, phi, bloch_t, bloch_p) ==
  <<HalfAngleVector((theta * bloch_t) \div 2, phi * bloch_p),
    HalfAngleVector(90 + (theta * bloch_t) \div 2, phi * bloch_p)>>

\* a press of "Measure" in single_spin_sim.py: the outcome is one that the
\* state measured gives along the vector of the angles set last, and in
\* type 4 the thread is handed the eigenvector of these angles
SingleClickFresh ==
  (prog = "single_spin" /\ num_measurements' = num_measurements + 1) =>
     LET v == VectorsAt(a_theta, a_phi, 1, 1)
         p == Abs2(VDot(v[1], window_state))
     IN  /\ result'.args = <<a_theta, a_phi>>
         /\ measurement' = 1 => ~IsZero(p)
         /\ measurement' = -1 => p # One
         /\ cfg.stype = 4 =>
              thread_state' = v[IF measurement' = 1 THEN 1 ELSE 2]

\* a press of "Measure A" or "Measure B" in two_spin_sim.py: the measurement
\* along the sliders is made with the vectors of the angles set last for A
\* and for B
TwoClickFresh ==
  (prog = "two_spin" /\ Len(sigma'.A.z) = Len(sigma.A.z) + 1) =>
     result'.args = <<VectorsAt(a_thetaA, a_phiA, cfg.bloch_t, cfg.bloch_p),
                      VectorsAt(a_thetaB, a_phiB, cfg.bloch_t, cfg.bloch_p)>>

\* C24: every measurement uses the vectors computed from the apparatus
\* angles as the last update_rotation_* call before it left them, in
\* single_spin_sim.py (measured direction and type-4 collapse) and in
\* two_spin_sim.py (both apparatuses), whatever the order of slider moves
\* and measurements.
C24_DirectionsNeverStale == [][SingleClickFresh /\ TwoClickFresh]_vars

\* type 4: a measurement along z, then the slider theta moved to 90, then
\* a second measurement that gave -1 and collapsed the spin onto the "-1"
\* vector of the new angle
C24_Witness ==
  /\ prog = "single_spin" /\ cfg.stype = 4
  /\ num_measurements = 2 /\ a_theta = 90 /\ a_phi = 0
  /\ result.op = "measure" /\ result.args = <<90, 0>>
  /\ measurement = -1 /\ count_p1 = 1
  /\ thread_state = VectorsAt(90, 0, 1, 1)[2]

(***************************************************************************)
(* The two vectors of an apparatus direction.                               *)
(***************************************************************************)
\* v_plus and v_minus have norm 1 and inner product 0
Orthonormal(pair) ==
  /\ Norm2(pair[1]) = One
  /\ Norm2(pair[2]) = One
  /\ IsZero(VDot(pair[1], pair[2]))

\* C25: for every apparatus angle and every value of the Bloch
\* coefficients, 2 included, the two vectors built for an apparatus
\* direction are orthonormal, in epr_experiment.py, two_spin_sim.py and
\* single_spin_sim.py alike.
C25_DirectionsOrthonormal ==
  result.op = "directions" =>
     \A k \in 1..Len(result.ret) : Orthonormal(result.ret[k])

\* two_spin_sim.py at the photon scale, theta = 90 and phi = 90: the vectors
\* of the doubled angle, |d> and -|u> up to the phase of phi
C25_Witness ==
  /\ result.op = "directions"
  /\ cfg.script = "two_spin" /\ cfg.bloch_t = 2 /\ cfg.bloch_p = 1
  /\ cfg.theta = 90 /\ cfg.phi = 90
  /\ result.ret[1] = <<<<Zero, ImagUnit>>, <<CNeg(One), Zero>>>>

(***************************************************************************)
(* epr_experiment.py: the switches of a trial in Fix and in Random mode.    *)
(***************************************************************************)
\* an iteration of measure(n) that recorded a trial
TrialStep ==
  /\ prog = "epr"
  /\ Len(switches1') = Len(switches1) + 1
  /\ Len(switches2') = Len(switches2) + 1

\* the switches the trial recorded
TrialSwitches == <<switches1'[Len(switches1')], switches2'[Len(switches2')]>>

\* C26: a trial recorded in Fix mode carries the pair of switches selected
\* last with the L/C/R buttons (button1fix, button2fix, which only
\* update_button1 / update_button2 assign), also after trials in Random mode
\* and for a selection made in Random mode; a trial recorded in Random mode
\* carries switches of {0, 1, 2}.
C26_SwitchPolicy ==
  [][TrialStep =>
       /\ isFixed => TrialSwitches = <<button1fix, button2fix>>
       /\ ~isFixed => (TrialSwitches[1] \in Switches
                         /\ TrialSwitches[2] \in Switches)]_vars

\* experiment 1, which starts in Random mode: a trial drawn at (R, L), then
\* L selected for apparatus 1, then Fix selected, then a trial at (L, C)
C26_Witness ==
  /\ prog = "epr" /\ cfg.experiment = 1
  /\ isFixed /\ selections = 2 /\ remaining = 0
  /\ button1fix = 0 /\ button2fix = 1
  /\ switches1 = <<2, 0>> /\ switches2 = <<0, 1>>

(***************************************************************************)
(* The two stages of a joint measurement.                                   *)
(***************************************************************************)
\* the joint measurement made last: TwoSpin.Measure, or the measurement
\* along the sliders of measureAB (the fourth call of measureSpin)
JointCall ==
  [psi |-> IF measureABDone THEN result.psi[4] ELSE result.psi,
   first |-> IF result.simulate_1 THEN result.args[1] ELSE result.args[2],
   second |-> IF result.simulate_1 THEN result.args[2] ELSE result.args[1]]

\* (<v| (x) 1) psi, or (1 (x) <v|) psi when the second subsystem is the one
\* measured first: the vector left to the other subsystem, not normalized
Contracted(psi, v, on_first) ==
  Array([k \in 1..2 |->
     SumSeq([m \in 1..2 |->
        CMul(CConj(v[m]),
             psi[IF on_first THEN 2 * (m - 1) + k ELSE 2 * (k - 1) + m])])])

\* Born's rule on the state before the measurement: the probability of "+1"
\* for the subsystem measured first
FirstProb(j, on_first) == Norm2(Contracted(j.psi, j.first[1], on_first))

\* Born's rule on the state collapsed by the first outcome sp1: the
\* probability of "+1" for the other subsystem (0/0 when sp1 has left the
\* zero vector)
SecondProb(j, on_first, sp1) ==
  LET rest == Contracted(j.psi, j.first[IF sp1 = 1 THEN 1 ELSE 2], on_first)
  IN  Normalized(Abs2(VDot(j.second[1], rest)), Norm2(rest))

\* Born's probability, on the state before the measurement, of the outcome
\* sp1 of the subsystem measured first
DrawnProb(j, on_first, sp1) ==
  Norm2(Contracted(j.psi, j.first[IF sp1 = 1 THEN 1 ELSE 2], on_first))

\* what Born's rule says of a joint measurement, worked out once for the
\* measurements that are kept
JointOf(psi, directions1, directions2, simulate_1) ==
  [psi |-> psi,
   first |-> IF simulate_1 THEN directions1 ELSE directions2,
   second |-> IF simulate_1 THEN directions2 ELSE directions1]
BornRule(j, directions1, directions2, simulate_1) ==
  [first |-> FirstProb(j, simulate_1),
   second |-> Table([sp1 \in PlusMinus |-> SecondProb(j, simulate_1, sp1)]),
   drawn |-> Table([sp1 \in PlusMinus |-> DrawnProb(j, simulate_1, sp1)]),
   apparatus |-> IsApparatus(j.first),
   left |-> Table([sp1 \in PlusMinus |->
               Norm2(Projected(j.psi, directions1, directions2, simulate_1,
                               sp1))])]
BornTable ==
  Table([k \in Tabulated |->
           BornRule(JointOf(k[1], k[2], k[3], k[4]), k[2], k[3], k[4])])
BornLookup(k) ==
  IF k \in Tabulated THEN BornTable[k]
  ELSE BornRule(JointOf(k[1], k[2], k[3], k[4]), k[2], k[3], k[4])
Born ==
  BornLookup(<<JointCall.psi, result.args[1], result.args[2],
               result.simulate_1>>)

\* C27: a joint measurement decides the first outcome with one draw from
\* the reduced density matrix of the state before the measurement, then the
\* second outcome with a second draw from the reduced density matrix of the
\* state collapsed by the first outcome, never from the state before.
C27_TwoStages ==
  ((MeasureDone \/ measureABDone) /\ ~result.zero_norm) =>
     /\ \E random_number1 \in RandomDraws :
           result.sp[1] = Outcome(random_number1, Born.first)
     /\ \E random_number2 \in RandomDraws :
           result.sp[2] = Outcome(random_number2, Born.second[result.sp[1]])

\* the singlet with both apparatuses along z, subsystem 2 measured first:
\* it gave +1 with probability 1/2 and the other subsystem then -1, +1
\* having probability 0 on the collapsed state
C27_Witness ==
  /\ prog = "lib" /\ MeasureDone /\ ~result.simulate_1
  /\ result.psi = SingletState
  /\ result.args[1] = <<s_u, s_d>> /\ result.args[2] = <<s_u, s_d>>
  /\ result.sp = <<1, -1>>
  /\ FirstProb(JointCall, FALSE) = Half
  /\ SecondProb(JointCall, FALSE, 1) = Zero

SystemA(s, p1, m1, last) ==
  [log |-> s.A.th_ph, count_p1 |-> p1, count_m1 |-> m1, last |-> last]
SystemB(s, p1, m1, last) ==
  [log |-> s.B.th_ph, count_p1 |-> p1, count_m1 |-> m1, last |-> last]

\* one entry appended to the log, the counter of that entry incremented and
\* the entry made the last measurement
Updated(before, after) ==
  /\ Len(after.log) = Len(before.log) + 1
  /\ SubSeq(after.log, 1, Len(before.log)) = before.log
  /\ after.last = after.log[Len(after.log)]
  /\ after.last \in PlusMinus
  /\ after.count_p1 = before.count_p1 + (IF after.last = 1 THEN 1 ELSE 0)
  /\ after.count_m1 = before.count_m1 + (IF after.last = -1 THEN 1 ELSE 0)

\* the axis logs of both systems
AxisLogs(s) == <<s.A.z, s.A.x, s.A.y, s.B.z, s.B.x, s.B.y>>

\* a press: with measure_both off the system of the button is updated and
\* the other one left alone, with measure_both on both are updated; every
\* axis log gets one entry
PressStep ==
  (prog = "two_spin" /\ sigma' # sigma) =>
     LET A0 == SystemA(sigma, count_p1A, count_m1A, measurementA)
         A1 == SystemA(sigma', count_p1A', count_m1A', measurementA')
         B0 == SystemB(sigma, count_p1B, count_m1B, measurementB)
         B1 == SystemB(sigma', count_p1B', count_m1B', measurementB')
         measureA == result'.simulate_1
     IN  /\ result'.op = "measureAB"
         /\ (measureA \/ cfg.m) => Updated(A0, A1)
         /\ (~measureA \/ cfg.m) => Updated(B0, B1)
         /\ (~measureA /\ ~cfg.m) => A1 = A0
         /\ (measureA /\ ~cfg.m) => B1 = B0
         /\ \A k \in 1..6 :
               Len(AxisLogs(sigma')[k]) = Len(AxisLogs(sigma)[k]) + 1

\* the counters of a system add up to the length of its log, the six axis
\* logs have one length, the number of presses, which is the number of
\* entries of the two apparatus-direction logs together (of each of them
\* with measure_both on)
PressCounts ==
  prog = "two_spin" =>
     /\ count_p1A + count_m1A = Len(sigma.A.th_ph)
     /\ count_p1B + count_m1B = Len(sigma.B.th_ph)
     /\ \A k \in 1..6 : Len(AxisLogs(sigma)[k]) = Len(sigma.A.z)
     /\ Len(sigma.A.z) = IF cfg.m THEN Len(sigma.A.th_ph)
                         ELSE Len(sigma.A.th_ph) + Len(sigma.B.th_ph)
     /\ cfg.m => Len(sigma.B.th_ph) = Len(sigma.A.th_ph)

\* C29: with measure_both off a press of the button of A appends one entry
\* to A's apparatus-direction log and increments one of A's counters, and
\* leaves B's log, counters and last measurement unchanged (and the same for
\* B); with measure_both on a press updates both; in every state the
\* counters of X add up to the length of X's log and the z, x, y logs of A
\* and B have the length of the number of presses.
C29_PressFrame == [](PressCounts) /\ [][PressStep]_vars

\* measure_both off: "Measure A" was pressed, then "Measure B"
C29_Witness ==
  /\ prog = "two_spin" /\ ~cfg.m
  /\ measureABDone /\ ~result.simulate_1
  /\ Len(sigma.A.z) = 2
  /\ Len(sigma.A.th_ph) = 1 /\ Len(sigma.B.th_ph) = 1
  /\ count_p1A + count_m1A = 1 /\ count_p1B + count_m1B = 1

(***************************************************************************)
(* mod_spin_operators.py: SingleSpin.theta, phi and angles.                 *)
(***************************************************************************)
\* a call of theta(), phi() or angles(), on the state it found
AngleCall == prog = "lib" /\ result.op \in {"theta", "phi", "angles"}

\* C30: on a SingleSpin whose state was set to a unit 2-vector, theta()
\* returns 2 * arccos(|psi[0]|), phi() the phase of psi[1] (0 when psi[1] is
\* 0) and angles() the pair; the calls fail only when no state was set.
C30_AsClaimed ==
  AngleCall =>
     /\ result.psi = None => result.status # "ok"
     /\ (Len(result.psi) = 2 /\ IsUnit(result.psi)) =>
           LET th == 2 * ArcCosDeg(AbsOf(result.psi[1]))
               ph == IF result.psi[2] # Zero THEN PhaseDeg(result.psi[2])
                     ELSE 0
           IN  /\ result.status = "ok"
               /\ result.ret = CASE result.op = "theta" -> th
                                 [] result.op = "phi" -> ph
                                 [] OTHER -> <<th, ph>>
====
